---- MODULE Spec2Model ----
(***************************************************************************)
(* State-machine model of the auth bot's token, subscription and payment   *)
(* engine (auth_bot/utils/token_generator.py, token_manager.py,            *)
(* subscription_manager.py, handlers/subscription.py, handlers/admin.py,   *)
(* payment/payment_handler.py, webhook_handler.py).                        *)
(*                                                                         *)
(* The process is single-threaded and cooperative: a handler runs until    *)
(* its next await.  Every awaited store call is one atomic step of the     *)
(* store; the handler's local code that follows the call runs in the       *)
(* handler's next step, so other handlers can run between a store call and *)
(* the use of its result.                                                  *)
(*                                                                         *)
(* Time is counted in hours.  The store (auth_bot.database.db_handler) is  *)
(* not part of the sources; its operations are modelled from the           *)
(* specification's store contract.                                         *)
(***************************************************************************)
EXTENDS Integers, Sequences, FiniteSets, TLC

VARIABLES
    config,              \* AUTO_REVOKE_EXPIRED and FREE_TIER_FALLBACK, read once from the environment
    now,                 \* the wall clock (datetime.now() / time.time()), in hours
    issued,              \* token id -> the payload sealed into the token string
    tokens,              \* store, collection tokens: token id -> persisted copy
    subs,                \* store, collection subscriptions: user -> record
    payments,            \* store, collection payments: payment id -> record
    subscription_cache,  \* subscription_manager.subscription_cache
    subscription_data,   \* auth_bot.subscription_data (cache of handlers/subscription.py)
    task,                \* the coroutines in flight: task -> frame (pc and locals)
    notified,            \* notifications sent: kind -> user -> count, and the store's
                         \* last-notified time: user -> time
    hist                 \* history of the run (observations the claims are stated on)

vars == <<config, now, issued, tokens, subs, payments, subscription_cache,
          subscription_data, task, notified, hist>>

----------------------------------------------------------------------------
(* Bounds of the model *)

MaxTokens == 1           \* tokens issued in one run
MaxClockHours == 9       \* the clock of the token runs stops here
MaxSubClockHours == 216  \* the clock of the subscription runs stops here
MaxCacheClockHours == 252  \* the clock of the cache runs stops here
MaxGrants == 2           \* grants made in one run
MaxDepth == 2            \* nesting of get_subscription_status before RecursionError
MaxPayments == 1         \* payments created in one run
MaxCount == 2            \* notification counters stop counting here

(* Program constants *)

TOKEN_EXPIRY_HOURS == 6
BASIC_PLAN_DAYS == 7
STANDARD_PLAN_DAYS == 30
PREMIUM_PLAN_DAYS == 90
DAY == 24

Tasks == {"t1", "t2"}
Users == {1, 2}
TokenIds == 1..MaxTokens
PaymentIds == 1..MaxPayments
SubClockSteps == {36, 72}                        \* a day and a half, three days
RaceClockSteps == {108}                          \* four days and a half
GrantDays == {BASIC_PLAN_DAYS, STANDARD_PLAN_DAYS}
GrantUsers == {1}
TokenClockSteps == {TOKEN_EXPIRY_HOURS \div 2}   \* the clock of the token runs moves in these steps

(* Absent values: None in the code, a missing document in the store *)
None == [none |-> TRUE]
NoDate == -1

----------------------------------------------------------------------------
(* Frames *)

IdleFrame ==
    [pc |-> "idle", op |-> "none", user |-> 0, days |-> 0, tok |-> 0, pay |-> 0,
     snap |-> None, at |-> NoDate, res |-> "none", data |-> None,
     ok |-> FALSE, exp |-> NoDate, depth |-> 0, ret |-> "none",
     arg |-> "none", before |-> None, first |-> FALSE, late |-> FALSE,
     queue |-> <<>>, processed |-> <<>>, found |-> {}, swept |-> FALSE,
     token |-> <<>>, replay |-> FALSE, sleep |-> 0, wake |-> NoDate,
     fault |-> "none"]

Idle(t) == task[t].pc = "idle"
Done(t) == task[t].pc = "done"

----------------------------------------------------------------------------
(* The store's token collection (db.add_token, db.get_token, db.use_token) *)

\* db.add_token(token, user_id, expires_at): persist the copy, not yet used
DbAddToken(store, k, u, exp) ==
    [store EXCEPT ![k] = [user_id |-> u, expires_at |-> exp, is_used |-> FALSE]]

\* db.get_token(token): the persisted copy, or None
DbGetToken(store, k) == store[k]

\* db.use_token(token): mark the persisted copy used
DbUseToken(store, k) ==
    IF store[k] = None THEN store ELSE [store EXCEPT ![k].is_used = TRUE]

----------------------------------------------------------------------------
(* Token codec *)

\* the payload both generate_token functions seal into the token
TokenPayload(u, d, cur, ttl) ==
    [user_id |-> u, plan_days |-> d, expires_at |-> cur + ttl]

FreeTokenIds == {k \in TokenIds : issued[k] = None}

\* token_generator.generate_token: build the payload, sign it, persist a copy
GenerateToken(u, d) ==
    /\ FreeTokenIds # {}
    /\ LET k == CHOOSE x \in FreeTokenIds : \A y \in FreeTokenIds : x <= y
           p == TokenPayload(u, d, now, TOKEN_EXPIRY_HOURS)
       IN  /\ issued' = [issued EXCEPT ![k] = p]
           /\ tokens' = DbAddToken(tokens, k, u, p.expires_at)
    /\ UNCHANGED <<config, now, subs, payments, subscription_cache, subscription_data,
                   task, notified, hist>>

\* token_manager.generate_token: the same payload and signature, nothing persisted
TmGenerateToken(u, d) ==
    /\ FreeTokenIds # {}
    /\ LET k == CHOOSE x \in FreeTokenIds : \A y \in FreeTokenIds : x <= y
       IN  issued' = [issued EXCEPT ![k] = TokenPayload(u, d, now, TOKEN_EXPIRY_HOURS)]
    /\ UNCHANGED <<config, now, tokens, subs, payments, subscription_cache,
                   subscription_data, task, notified, hist>>

\* token_generator.validate_token line 124: datetime.now() > token_data["expires_at"]
ExpiredAtStore_Never(cur, snap) == FALSE
ExpiredAtStore(cur, snap) == cur > snap.expires_at

\* token_generator.validate_token line 129: token_data["is_used"]
AlreadyUsed_Ignored(snap) == FALSE
AlreadyUsed(snap) == snap.is_used

\* token_manager.validate_token line 79: token_data.get("expires_at", 0) < current_time
ExpiredInPayload(cur, payload) == payload.expires_at < cur

\* token_generator.validate_token, line 117: await get_token_by_value(token)
ValidateLookup(t, k) ==
    /\ Idle(t)
    /\ task' = [task EXCEPT ![t] =
                  [IdleFrame EXCEPT !.pc = "v_lookup", !.op = "validate_token",
                                    !.tok = k, !.snap = DbGetToken(tokens, k),
                                    !.first = ~hist.looked[k] /\ tokens[k] # None,
                                    !.late = hist.redeemed[k] > 0]]
    /\ hist' = [hist EXCEPT !.looked[k] = @ \/ tokens[k] # None]
    /\ UNCHANGED <<config, now, issued, tokens, subs, payments, subscription_cache,
                   subscription_data, notified>>

\* lines 119-134: not found, expired, already used, else await invalidate_token(token)
ValidateCheck(t) ==
    /\ task[t].pc = "v_lookup"
    /\ LET f == task[t]
       IN  IF f.snap = None
           THEN /\ task' = [task EXCEPT ![t].pc = "done", ![t].res = "fail",
                                        ![t].at = now]
                /\ UNCHANGED tokens
           ELSE IF ExpiredAtStore(now, f.snap) \/ AlreadyUsed(f.snap)
           THEN /\ task' = [task EXCEPT ![t].pc = "done", ![t].res = "fail",
                                        ![t].at = now]
                /\ UNCHANGED tokens
           ELSE /\ tokens' = DbUseToken(tokens, f.tok)
                /\ task' = [task EXCEPT ![t].pc = "v_mark", ![t].at = now]
    /\ UNCHANGED <<config, now, issued, subs, payments, subscription_cache,
                   subscription_data, notified, hist>>

\* line 136: return True, token_data
ValidateReturn(t) ==
    /\ task[t].pc = "v_mark"
    /\ task' = [task EXCEPT ![t].pc = "done", ![t].res = "ok",
                            ![t].data = task[t].snap]
    /\ hist' = [hist EXCEPT !.redeemed[task[t].tok] = @ + 1]
    /\ UNCHANGED <<config, now, issued, tokens, subs, payments, subscription_cache,
                   subscription_data, notified>>

\* token_manager.validate_token on a well-formed token with a matching signature
TmValidate(t, k) ==
    /\ Idle(t)
    /\ issued[k] # None
    /\ task' = [task EXCEPT ![t] =
                  [IdleFrame EXCEPT !.pc = "done", !.op = "tm_validate_token",
                                    !.tok = k, !.at = now,
                                    !.res = IF ExpiredInPayload(now, issued[k])
                                            THEN "fail" ELSE "ok",
                                    !.data = IF ExpiredInPayload(now, issued[k])
                                             THEN None ELSE issued[k]]]
    /\ UNCHANGED <<config, now, issued, tokens, subs, payments, subscription_cache,
                   subscription_data, notified, hist>>

\* the caller takes the result; the coroutine is gone
Finish(t) ==
    /\ Done(t)
    /\ task' = [task EXCEPT ![t] = IdleFrame]
    /\ UNCHANGED <<config, now, issued, tokens, subs, payments, subscription_cache,
                   subscription_data, notified, hist>>

\* the clock of the token runs moves on
TickHour ==
    /\ \E step \in TokenClockSteps :
          /\ now + step <= MaxClockHours
          /\ now' = now + step
    /\ UNCHANGED <<config, issued, tokens, subs, payments, subscription_cache,
                   subscription_data, task, notified, hist>>

----------------------------------------------------------------------------
(* The store's subscription collection.  A record is                        *)
(* [plan_type, plan_days, end_date, status].                                *)

\* db_models.Subscription.is_active
SubscriptionIsActive(sub, cur) == sub.status = "active" /\ cur < sub.end_date

\* db.get_user_subscription(user_id): the record, or None
DbGetUserSubscription(store, u) == store[u]

\* db.get_subscription(user_id): the record as a dict, or None
DbGetSubscription(store, u, cur) ==
    IF store[u] = None THEN None
    ELSE [plan |-> store[u].plan_type,
          is_active |-> SubscriptionIsActive(store[u], cur),
          expiry_date |-> store[u].end_date]

\* db.add_subscription(user_id, plan_type, plan_days): a new active record from now
DbAddSubscription(store, u, plan_type, plan_days, cur) ==
    [store EXCEPT ![u] = [plan_type |-> plan_type, plan_days |-> plan_days,
                          end_date |-> cur + plan_days * DAY, status |-> "active"]]

\* db.extend_subscription(user_id, plan_days): add the days to the end time
DbExtendSubscription(store, u, plan_days) ==
    IF store[u] = None THEN store
    ELSE [store EXCEPT ![u].end_date = @ + plan_days * DAY,
                       ![u].plan_days = @ + plan_days]

\* db.update_subscription(user_id, is_active=False): the record is cancelled
DbDeactivateSubscription_Toggles(store, u) ==
    IF store[u] = None THEN store
    ELSE [store EXCEPT ![u].status = IF @ = "active" THEN "cancelled" ELSE "active"]
DbDeactivateSubscription(store, u) ==
    IF store[u] = None THEN store ELSE [store EXCEPT ![u].status = "cancelled"]

\* what db.update_subscription and db.extend_subscription return
DbTouched(store, u) == store[u] # None

Sat(n) == IF n < MaxCount THEN n + 1 ELSE n

----------------------------------------------------------------------------
(* subscription_manager.py *)

\* update_user_subscription lines 149-155
PlanTypeOfDays(d) ==
    IF d = 7 THEN "basic" ELSE IF d = 30 THEN "standard"
    ELSE IF d = 90 THEN "premium" ELSE "free"

\* update_user_subscription lines 158-167; the record is the one get_subscription read
NewExpiry(sub, cur, d) ==
    IF sub # None /\ SubscriptionIsActive(sub, cur) /\ sub.end_date # NoDate
    THEN IF sub.end_date > cur THEN sub.end_date + d * DAY ELSE cur + d * DAY
    ELSE cur + d * DAY

\* update_subscription line 105: (expiry_date - start_date).days
WholeDays(expiry, start) == (expiry - start) \div DAY

\* a frame enters update_user_subscription, line 146: await get_subscription(user_id)
UusEnter(f, u, d, ret) ==
    [f EXCEPT !.pc = "uus_got", !.user = u, !.days = d, !.ret = ret, !.at = now,
              !.snap = DbGetUserSubscription(subs, u), !.before = subs[u]]

UusStart(t, u, d) ==
    /\ Idle(t)
    /\ hist.grants < MaxGrants
    /\ task' = [task EXCEPT ![t] =
                  UusEnter([IdleFrame EXCEPT !.op = "update_user_subscription"],
                           u, d, "none")]
    /\ hist' = [hist EXCEPT !.grants = @ + 1, !.revoked[u] = FALSE]
    /\ UNCHANGED <<config, now, issued, tokens, subs, payments, subscription_cache,
                   subscription_data, notified>>

\* lines 148-180 and update_subscription lines 103-110: await db.add_subscription
UusWrite(t) ==
    /\ task[t].pc = "uus_got"
    /\ LET f == task[t]
           expiry == NewExpiry(f.snap, now, f.days)
           start_date == now
           plan_days == WholeDays(expiry, start_date)
       IN  /\ subs' = DbAddSubscription(subs, f.user, PlanTypeOfDays(f.days),
                                        plan_days, now)
           /\ task' = [task EXCEPT ![t].pc = "uus_written", ![t].exp = expiry]
           /\ hist' = [hist EXCEPT !.revoked[f.user] = FALSE]
    /\ UNCHANGED <<config, now, issued, tokens, payments, subscription_cache,
                   subscription_data, notified>>

\* lines 183-188: the cache entry, the activation notification, the return
UusFinish(t) ==
    /\ task[t].pc = "uus_written"
    /\ LET f == task[t]
           entry == [plan |-> PlanTypeOfDays(f.days), is_active |-> TRUE,
                     expiry_date |-> f.exp]
       IN  /\ subscription_cache' = [subscription_cache EXCEPT ![f.user] = entry]
           /\ notified' = [notified EXCEPT !.activated[f.user] = Sat(@)]
           /\ task' = [task EXCEPT ![t].pc = IF f.ret = "none" THEN "done" ELSE f.ret,
                                   ![t].res = IF f.ret = "none" THEN "ok" ELSE f.res,
                                   ![t].data = entry]
           /\ hist' = [hist EXCEPT !.revoked[f.user] = FALSE]
    /\ UNCHANGED <<config, now, issued, tokens, subs, payments, subscription_data>>

\* revoke_subscription line 125: await db.update_subscription(user_id, is_active=False)
RevokeStart(t, u) ==
    /\ Idle(t)
    /\ subs' = DbDeactivateSubscription(subs, u)
    /\ task' = [task EXCEPT ![t] =
                  [IdleFrame EXCEPT !.pc = "rv_written", !.op = "revoke_subscription",
                                    !.user = u, !.ok = DbTouched(subs, u)]]
    /\ UNCHANGED <<config, now, issued, tokens, payments, subscription_cache,
                   subscription_data, notified, hist>>

\* lines 126-128: drop the cache entry on success, return success
RevokeFinish(t) ==
    /\ task[t].pc = "rv_written"
    /\ LET f == task[t]
       IN  /\ subscription_cache' =
                 IF f.ok THEN [subscription_cache EXCEPT ![f.user] = None]
                 ELSE subscription_cache
           /\ task' = [task EXCEPT ![t].pc = "done",
                                   ![t].res = IF f.ok THEN "ok" ELSE "fail"]
           /\ hist' = [hist EXCEPT !.revoked[f.user] = @ \/ f.ok]
    /\ UNCHANGED <<config, now, issued, tokens, subs, payments, subscription_data,
                   notified>>

\* handle_expired_subscription line 201: if AUTO_REVOKE_EXPIRED
AutoRevoke_On(cfg) == TRUE
AutoRevoke(cfg) == cfg.auto_revoke

\* get_subscription_status line 40 (and handlers/subscription.py line 35):
\* the cached entry's expiry_date > datetime.now()
CacheFresh_Always(entry, cur) == TRUE
CacheFresh(entry, cur) == entry.expiry_date > cur

\* get_subscription_status lines 38-47: the cache, then await db.get_user_subscription.
\* The frame either returns the cached entry or holds what the store returned.
GssEnter(f, u) ==
    LET c == subscription_cache[u]
    IN  IF c # None /\ c.is_active /\ CacheFresh(c, now)
        THEN [f EXCEPT !.pc = "done", !.user = u, !.res = "ok", !.data = c]
        ELSE [f EXCEPT !.pc = "gss_got", !.user = u,
                       !.snap = DbGetUserSubscription(subs, u)]

\* the cache after lines 38-44: an active entry that is past its expiry is dropped
GssCache(u) ==
    LET c == subscription_cache[u]
    IN  IF c # None /\ c.is_active /\ ~CacheFresh(c, now)
        THEN [subscription_cache EXCEPT ![u] = None]
        ELSE subscription_cache

GssStart(t, u) ==
    /\ Idle(t)
    /\ task' = [task EXCEPT ![t] =
                  GssEnter([IdleFrame EXCEPT !.op = "get_subscription_status",
                                             !.late = hist.revoked[u],
                                             !.swept = hist.handled[u]], u)]
    /\ subscription_cache' = GssCache(u)
    /\ UNCHANGED <<config, now, issued, tokens, subs, payments, subscription_data,
                   notified, hist>>

\* lines 49-82 up to the next await: the free default, the dict, the expiry check
\* (into handle_expired_subscription), the cache entry, the return
GssResume(t) ==
    /\ task[t].pc = "gss_got"
    /\ LET f == task[t]
           d == [plan |-> f.snap.plan_type,
                 is_active |-> SubscriptionIsActive(f.snap, now),
                 expiry_date |-> f.snap.end_date]
       IN  IF f.snap = None
           THEN /\ task' = [task EXCEPT ![t].pc = "done", ![t].res = "ok",
                               ![t].data = [plan |-> "free", is_active |-> TRUE,
                                            expiry_date |-> NoDate]]
                /\ UNCHANGED <<subs, subscription_cache>>
           ELSE IF d.expiry_date # NoDate /\ d.expiry_date < now
           THEN \* handle_expired_subscription lines 201-203
                IF AutoRevoke(config)
                THEN /\ subs' = DbDeactivateSubscription(subs, f.user)
                     /\ task' = [task EXCEPT ![t].pc = "he_revoked",
                                             ![t].ok = DbTouched(subs, f.user),
                                             ![t].data = d]
                     /\ UNCHANGED subscription_cache
                ELSE /\ task' = [task EXCEPT ![t].pc = "he_updated", ![t].data = d]
                     /\ UNCHANGED <<subs, subscription_cache>>
           ELSE /\ task' = [task EXCEPT ![t].pc = "done", ![t].res = "ok",
                                        ![t].data = d]
                /\ subscription_cache' =
                      IF d.is_active
                      THEN [subscription_cache EXCEPT ![f.user] = d]
                      ELSE subscription_cache
                /\ UNCHANGED subs
    /\ UNCHANGED <<config, now, issued, tokens, payments, subscription_data,
                   notified, hist>>

\* revoke_subscription lines 126-128, handle_expired_subscription lines 205-227:
\* with the fallback on, line 217 calls .split on the list FREE_TIER_COMMANDS and
\* raises; with it off, await db.update_subscription(user_id, is_active=False)
HeAfterRevoke(t) ==
    /\ task[t].pc = "he_revoked"
    /\ LET f == task[t]
       IN  /\ subscription_cache' = [subscription_cache EXCEPT ![f.user] = None]
           /\ IF config.free_tier_fallback
              THEN /\ task' = [task EXCEPT ![t].pc = "done", ![t].res = "error",
                                           ![t].data = None]
                   /\ UNCHANGED subs
              ELSE /\ subs' = DbDeactivateSubscription(subs, f.user)
                   /\ task' = [task EXCEPT ![t].pc = "he_updated"]
    /\ UNCHANGED <<config, now, issued, tokens, payments, subscription_data,
                   notified, hist>>

\* line 230: the expired notification; then get_subscription_status line 76 calls
\* itself: one frame deeper, until the interpreter's recursion limit
HeNotifyAndRecurse(t) ==
    /\ task[t].pc = "he_updated"
    /\ LET f == task[t]
       IN  /\ notified' = [notified EXCEPT !.expired[f.user] = Sat(@)]
           /\ IF f.depth >= MaxDepth
              THEN /\ task' = [task EXCEPT ![t].pc = "done", ![t].res = "error",
                                           ![t].data = None]
                   /\ UNCHANGED subscription_cache
              ELSE /\ task' = [task EXCEPT ![t] =
                                 GssEnter([f EXCEPT !.depth = @ + 1, !.data = None],
                                          f.user)]
                   /\ subscription_cache' = GssCache(f.user)
    /\ UNCHANGED <<config, now, issued, tokens, subs, payments, subscription_data,
                   hist>>

\* db.get_expired_subscriptions(): the users whose record is active with its
\* end time before now
DbGetExpiredSubscriptions(store, cur) ==
    {u \in DOMAIN store :
        store[u] # None /\ store[u].status = "active" /\ store[u].end_date < cur}

\* the orders in which the store may hand over a set of records
Orderings(S) ==
    {q \in [1..Cardinality(S) -> S] : \A i, j \in 1..Cardinality(S) : q[i] = q[j] => i = j}

\* the cache without the user's entry (del subscription_cache[user_id])
CacheWithout(cache, u) == [cache EXCEPT ![u] = None]

\* process_expired_subscriptions lines 283-289: await db.get_expired_subscriptions()
PesStart(t) ==
    /\ Idle(t)
    /\ \E q \in Orderings(DbGetExpiredSubscriptions(subs, now)) :
          task' = [task EXCEPT ![t] =
                     [IdleFrame EXCEPT !.pc = "pes_loop",
                                       !.op = "process_expired_subscriptions",
                                       !.queue = q, !.at = now,
                                       !.found = DbGetExpiredSubscriptions(subs, now)]]
    /\ UNCHANGED <<config, now, issued, tokens, subs, payments, subscription_cache,
                   subscription_data, notified, hist>>

\* lines 291-305 and handle_expired_subscription lines 199-203, 229-230: the
\* list exhausted returns the processed users; else the next record goes to
\* handle_expired_subscription, which with auto-revoke on awaits
\* revoke_subscription (db.update_subscription(user_id, is_active=False)) and
\* with it off only sends the expired notification; then lines 298-302
PesLoop(t) ==
    /\ task[t].pc = "pes_loop"
    /\ LET f == task[t]
           u == Head(f.queue)
       IN  IF f.queue = <<>>
           THEN /\ task' = [task EXCEPT ![t].pc = "done", ![t].res = "ok"]
                /\ UNCHANGED <<subs, subscription_cache, notified, hist>>
           ELSE IF AutoRevoke(config)
           THEN /\ subs' = DbDeactivateSubscription(subs, u)
                /\ task' = [task EXCEPT ![t].pc = "pes_revoked", ![t].user = u,
                                        ![t].ok = DbTouched(subs, u)]
                /\ UNCHANGED <<subscription_cache, notified, hist>>
           ELSE /\ notified' = [notified EXCEPT !.expired[u] = Sat(@)]
                /\ subscription_cache' = CacheWithout(subscription_cache, u)
                /\ task' = [task EXCEPT ![t].queue = Tail(@), ![t].user = u,
                                        ![t].processed = Append(@, u)]
                /\ hist' = [hist EXCEPT !.handled[u] = TRUE]
                /\ UNCHANGED subs
    /\ UNCHANGED <<config, now, issued, tokens, payments, subscription_data>>

\* revoke_subscription lines 126-128 and handle_expired_subscription lines
\* 205-227: the cache entry goes; with the fallback on, line 217 calls .split on
\* the list FREE_TIER_COMMANDS and raises, which ends the run at lines 307-309
\* with the users processed so far; with it off,
\* await db.update_subscription(user_id, is_active=False)
PesAfterRevoke(t) ==
    /\ task[t].pc = "pes_revoked"
    /\ LET f == task[t]
       IN  /\ subscription_cache' = CacheWithout(subscription_cache, f.user)
           /\ IF config.free_tier_fallback
              THEN /\ task' = [task EXCEPT ![t].pc = "done", ![t].res = "ok",
                                           ![t].arg = "AttributeError"]
                   /\ UNCHANGED subs
              ELSE /\ subs' = DbDeactivateSubscription(subs, f.user)
                   /\ task' = [task EXCEPT ![t].pc = "pes_updated"]
           /\ hist' = [hist EXCEPT !.handled[f.user] = TRUE]
    /\ UNCHANGED <<config, now, issued, tokens, payments, subscription_data,
                   notified>>

\* handle_expired_subscription line 230, process_expired_subscriptions lines
\* 298-302: the expired notification, the user joins the processed list, the
\* cache entry goes
PesNotify(t) ==
    /\ task[t].pc = "pes_updated"
    /\ LET f == task[t]
       IN  /\ notified' = [notified EXCEPT !.expired[f.user] = Sat(@)]
           /\ subscription_cache' = CacheWithout(subscription_cache, f.user)
           /\ task' = [task EXCEPT ![t].pc = "pes_loop", ![t].queue = Tail(@),
                                   ![t].processed = Append(@, f.user)]
    /\ UNCHANGED <<config, now, issued, tokens, subs, payments, subscription_data,
                   hist>>

----------------------------------------------------------------------------
(* handlers/subscription.py *)

\* update_subscription lines 66-73
PlanNameOfDays(d) ==
    IF d = BASIC_PLAN_DAYS THEN "Basic" ELSE IF d = STANDARD_PLAN_DAYS THEN "Standard"
    ELSE IF d = PREMIUM_PLAN_DAYS THEN "Premium" ELSE "Custom"

\* a frame enters update_subscription, line 76: await db.get_subscription(user_id)
HusEnter(f, u, d, ret) ==
    [f EXCEPT !.pc = "hus_got", !.user = u, !.days = d, !.ret = ret, !.at = now,
              !.snap = DbGetSubscription(subs, u, now), !.before = subs[u]]

HusStart(t, u, d) ==
    /\ Idle(t)
    /\ hist.grants < MaxGrants
    /\ task' = [task EXCEPT ![t] =
                  HusEnter([IdleFrame EXCEPT !.op = "update_subscription"],
                           u, d, "none")]
    /\ hist' = [hist EXCEPT !.grants = @ + 1, !.revoked[u] = FALSE]
    /\ UNCHANGED <<config, now, issued, tokens, subs, payments, subscription_cache,
                   subscription_data, notified>>

\* lines 78-89: extend an active subscription, else add a new one
HusWrite(t) ==
    /\ task[t].pc = "hus_got"
    /\ LET f == task[t]
       IN  IF f.snap # None /\ f.snap.is_active
           THEN /\ subs' = DbExtendSubscription(subs, f.user, f.days)
                /\ task' = [task EXCEPT ![t].pc = "hus_written",
                                        ![t].ok = DbTouched(subs, f.user)]
           ELSE /\ subs' = DbAddSubscription(subs, f.user, PlanNameOfDays(f.days),
                                             f.days, now)
                /\ task' = [task EXCEPT ![t].pc = "hus_written", ![t].ok = TRUE]
    /\ hist' = [hist EXCEPT !.revoked[task[t].user] = FALSE]
    /\ UNCHANGED <<config, now, issued, tokens, payments, subscription_cache,
                   subscription_data, notified>>

\* lines 83-97: on success read the record back and cache it; return success
HusRefresh(t) ==
    /\ task[t].pc = "hus_written"
    /\ task' = [task EXCEPT ![t].pc = "hus_read",
                            ![t].data = IF task[t].ok
                                        THEN DbGetSubscription(subs, task[t].user, now)
                                        ELSE None]
    /\ UNCHANGED <<config, now, issued, tokens, subs, payments, subscription_cache,
                   subscription_data, notified, hist>>

HusFinish(t) ==
    /\ task[t].pc = "hus_read"
    /\ LET f == task[t]
       IN  /\ subscription_data' =
                 IF f.data # None THEN [subscription_data EXCEPT ![f.user] = f.data]
                 ELSE subscription_data
           /\ task' = [task EXCEPT ![t].pc = IF f.ret = "none" THEN "done" ELSE f.ret,
                                   ![t].res = IF f.ret = "none"
                                              THEN (IF f.ok THEN "ok" ELSE "fail")
                                              ELSE f.res]
    /\ UNCHANGED <<config, now, issued, tokens, subs, payments, subscription_cache,
                   notified, hist>>

\* handlers/subscription.get_subscription_status lines 31-38: a cached entry
\* that is active with its expiry after now is returned; an entry without an
\* expiry makes the comparison of line 35 raise, and lines 49-51 return None;
\* else await db.get_subscription(user_id)
HgsStart(t, u) ==
    /\ Idle(t)
    /\ LET c == subscription_data[u]
           f == [IdleFrame EXCEPT !.op = "handlers.get_subscription_status",
                                  !.user = u, !.at = now]
       IN  task' = [task EXCEPT ![t] =
                      IF c # None /\ c.expiry_date = NoDate
                      THEN [f EXCEPT !.pc = "done", !.res = "ok", !.data = None,
                                     !.arg = "TypeError"]
                      ELSE IF c # None /\ CacheFresh(c, now) /\ c.is_active
                      THEN [f EXCEPT !.pc = "done", !.res = "ok", !.data = c,
                                     !.arg = "cache"]
                      ELSE [f EXCEPT !.pc = "hgs_got",
                                     !.snap = DbGetSubscription(subs, u, now)]]
    /\ UNCHANGED <<config, now, issued, tokens, subs, payments, subscription_cache,
                   subscription_data, notified, hist>>

\* lines 40-48: an active record is cached, any other drops the cache entry;
\* what the store returned is returned
HgsResume(t) ==
    /\ task[t].pc = "hgs_got"
    /\ LET f == task[t]
       IN  /\ subscription_data' =
                 IF f.snap # None /\ f.snap.is_active
                 THEN [subscription_data EXCEPT ![f.user] = f.snap]
                 ELSE [subscription_data EXCEPT ![f.user] = None]
           /\ task' = [task EXCEPT ![t].pc = "done", ![t].res = "ok",
                                   ![t].data = f.snap]
    /\ UNCHANGED <<config, now, issued, tokens, subs, payments, subscription_cache,
                   notified, hist>>

\* handlers/subscription.revoke_subscription line 114:
\* await db.update_subscription(user_id, is_active=False)
HrvStart(t, u) ==
    /\ Idle(t)
    /\ subs' = DbDeactivateSubscription(subs, u)
    /\ task' = [task EXCEPT ![t] =
                  [IdleFrame EXCEPT !.pc = "hrv_written",
                                    !.op = "handlers.revoke_subscription",
                                    !.user = u, !.ok = DbTouched(subs, u)]]
    /\ UNCHANGED <<config, now, issued, tokens, payments, subscription_cache,
                   subscription_data, notified, hist>>

\* lines 116-120: drop the cache entry on success, return success
HrvFinish(t) ==
    /\ task[t].pc = "hrv_written"
    /\ LET f == task[t]
       IN  /\ subscription_data' =
                 IF f.ok THEN [subscription_data EXCEPT ![f.user] = None]
                 ELSE subscription_data
           /\ task' = [task EXCEPT ![t].pc = "done",
                                   ![t].res = IF f.ok THEN "ok" ELSE "fail"]
    /\ UNCHANGED <<config, now, issued, tokens, subs, payments, subscription_cache,
                   notified, hist>>

\* db.revoke_subscription(user_id): the record is cancelled
DbRevokeSubscription(store, u) == DbDeactivateSubscription(store, u)

\* __main__.admin_action_handler line 597:
\* await db.update_subscription(target_user_id, is_active=False)
AdminActionRevokeStart(t, u) ==
    /\ Idle(t)
    /\ subs' = DbDeactivateSubscription(subs, u)
    /\ task' = [task EXCEPT ![t] =
                  [IdleFrame EXCEPT !.pc = "aar_written",
                                    !.op = "admin_action_handler.revoke_subscription",
                                    !.user = u]]
    /\ UNCHANGED <<config, now, issued, tokens, payments, subscription_cache,
                   subscription_data, notified, hist>>

\* lines 599-608: the reply to the admin; the pending action is cleared
AdminActionRevokeFinish(t) ==
    /\ task[t].pc = "aar_written"
    /\ task' = [task EXCEPT ![t].pc = "done", ![t].res = "ok"]
    /\ UNCHANGED <<config, now, issued, tokens, subs, payments, subscription_cache,
                   subscription_data, notified, hist>>

\* admin.handle_revoke_subscription lines 514-529: the user exists;
\* await db.get_subscription(target_user_id)
HandleRevokeStart(t, u) ==
    /\ Idle(t)
    /\ task' = [task EXCEPT ![t] =
                  [IdleFrame EXCEPT !.pc = "hr_got",
                                    !.op = "handle_revoke_subscription",
                                    !.user = u,
                                    !.snap = DbGetSubscription(subs, u, now)]]
    /\ UNCHANGED <<config, now, issued, tokens, subs, payments, subscription_cache,
                   subscription_data, notified, hist>>

\* lines 531-539: no subscription ends the handler; else
\* await db.revoke_subscription(target_user_id)
HandleRevokeWrite(t) ==
    /\ task[t].pc = "hr_got"
    /\ IF task[t].snap = None
       THEN /\ task' = [task EXCEPT ![t].pc = "done", ![t].res = "not_found"]
            /\ UNCHANGED subs
       ELSE /\ subs' = DbRevokeSubscription(subs, task[t].user)
            /\ task' = [task EXCEPT ![t].pc = "hr_written"]
    /\ UNCHANGED <<config, now, issued, tokens, payments, subscription_cache,
                   subscription_data, notified, hist>>

\* lines 541-555: the reply and the admin notification
HandleRevokeFinish(t) ==
    /\ task[t].pc = "hr_written"
    /\ task' = [task EXCEPT ![t].pc = "done", ![t].res = "ok"]
    /\ UNCHANGED <<config, now, issued, tokens, subs, payments, subscription_cache,
                   subscription_data, notified, hist>>

\* the clock of the runs with calls in flight together
TickRace ==
    /\ \E step \in RaceClockSteps :
          /\ now + step <= MaxSubClockHours
          /\ now' = now + step
    /\ UNCHANGED <<config, issued, tokens, subs, payments, subscription_cache,
                   subscription_data, task, notified, hist>>

\* the clock of the subscription runs moves on
TickDays ==
    /\ \E step \in SubClockSteps :
          /\ now + step <= MaxSubClockHours
          /\ now' = now + step
    /\ UNCHANGED <<config, issued, tokens, subs, payments, subscription_cache,
                   subscription_data, task, notified, hist>>

----------------------------------------------------------------------------
(* The store's payment collection.  A record is                             *)
(* [user_id, plan_type, plan_days, status].                                 *)

\* db.add_payment(payment_data)
DbAddPayment(store, p, u, plan_type, plan_days) ==
    [store EXCEPT ![p] = [user_id |-> u, plan_type |-> plan_type,
                          plan_days |-> plan_days, status |-> "pending"]]

\* db.get_payment(payment_id): the record, or None
DbGetPayment(store, p) == store[p]

\* db.update_payment_status(payment_id, status): the conditional transition of
\* the store contract; a payment that is no longer pending is left as it is
DbUpdatePaymentStatus_Unconditional(store, p, status) ==
    IF store[p] = None THEN store ELSE [store EXCEPT ![p].status = status]
DbUpdatePaymentStatus(store, p, status) ==
    IF store[p] # None /\ store[p].status = "pending"
    THEN [store EXCEPT ![p].status = status]
    ELSE store

FreePaymentIds == {p \in PaymentIds : payments[p] = None}

\* the plans a user can choose, __main__.py lines 352-363
Plans == {<<"basic", BASIC_PLAN_DAYS>>, <<"standard", STANDARD_PLAN_DAYS>>}

\* payment_handler.generate_payment_link lines 55-69: a pending record
CreatePayment(u, plan) ==
    /\ FreePaymentIds # {}
    /\ LET p == CHOOSE x \in FreePaymentIds : \A y \in FreePaymentIds : x <= y
       IN  payments' = DbAddPayment(payments, p, u, plan[1], plan[2])
    /\ UNCHANGED <<config, now, issued, tokens, subs, subscription_cache,
                   subscription_data, task, notified, hist>>

\* the end time of the user's record, for the history
EndOf(store, u) ==
    IF u \notin DOMAIN store \/ store[u] = None THEN NoDate ELSE store[u].end_date

\* a success report of a payment (process_payment, a webhook) has returned True
Reported(h, p, u) ==
    [h EXCEPT !.reports[p] = Sat(@),
              !.first_end[p] = IF h.reports[p] = 0 THEN EndOf(subs, u) ELSE @]

----------------------------------------------------------------------------
(* payment/payment_handler.py *)

\* process_payment lines 444-452: the days granted for a plan type
DaysOfPlanType(plan_type) ==
    IF plan_type = "basic" THEN 30 ELSE IF plan_type = "standard" THEN 90
    ELSE IF plan_type = "premium" THEN 180 ELSE 0

\* handle_razorpay_webhook lines 556-564
RazorpayStatus(s) ==
    IF s \in {"paid", "authorized", "captured"} THEN "success"
    ELSE IF s = "refunded" THEN "refunded"
    ELSE IF s = "failed" THEN "failed" ELSE "pending"

\* process_payment line 425: status.lower() != "success" sends the call back
StatusIsSuccess_Always(status) == TRUE
StatusIsSuccess(status) == status = "success"

\* a frame enters process_payment, line 423: await db.update_payment_status
PpEnter(f, p, status) ==
    [f EXCEPT !.pc = "pp_updated", !.pay = p, !.arg = status,
              !.user = IF payments[p] = None THEN 0 ELSE payments[p].user_id,
              !.late = hist.reports[p] > 0]

PpStart(t, p, status) ==
    /\ Idle(t)
    /\ hist.grants < MaxGrants
    /\ payments' = DbUpdatePaymentStatus(payments, p, status)
    /\ task' = [task EXCEPT ![t] =
                  PpEnter([IdleFrame EXCEPT !.op = "process_payment"], p, status)]
    /\ hist' = [hist EXCEPT !.grants = @ + 1]
    /\ UNCHANGED <<config, now, issued, tokens, subs, subscription_cache,
                   subscription_data, notified>>

\* handle_razorpay_webhook: the gateway's status mapped, then process_payment
RazorpayStart(t, p, gateway_status) ==
    /\ Idle(t)
    /\ hist.grants < MaxGrants
    /\ payments' = DbUpdatePaymentStatus(payments, p, RazorpayStatus(gateway_status))
    /\ task' = [task EXCEPT ![t] =
                  PpEnter([IdleFrame EXCEPT !.op = "handle_razorpay_webhook"],
                          p, RazorpayStatus(gateway_status))]
    /\ hist' = [hist EXCEPT !.grants = @ + 1]
    /\ UNCHANGED <<config, now, issued, tokens, subs, subscription_cache,
                   subscription_data, notified>>

\* lines 425-430: any status but success returns False; else await db.get_payment
PpAfterUpdate(t) ==
    /\ task[t].pc = "pp_updated"
    /\ IF ~StatusIsSuccess(task[t].arg)
       THEN task' = [task EXCEPT ![t].pc = "done", ![t].res = "fail"]
       ELSE task' = [task EXCEPT ![t].pc = "pp_got",
                                 ![t].snap = DbGetPayment(payments, task[t].pay)]
    /\ UNCHANGED <<config, now, issued, tokens, subs, payments, subscription_cache,
                   subscription_data, notified, hist>>

\* lines 432-459: the payment's plan type gives the days; generate_token is called
\* without await, so db.add_token is handed a coroutine object, which the
\* store either persists under a key nobody can present or refuses (the call
\* raises and process_payment returns False)
PpAfterGet(t) ==
    /\ task[t].pc = "pp_got"
    /\ LET f == task[t]
       IN  IF f.snap = None \/ DaysOfPlanType(f.snap.plan_type) = 0
           THEN task' = [task EXCEPT ![t].pc = "done", ![t].res = "fail"]
           ELSE \E accepted \in BOOLEAN :
                  IF accepted
                  THEN task' = [task EXCEPT ![t].pc = "pp_token",
                                   ![t].days = DaysOfPlanType(f.snap.plan_type)]
                  ELSE task' = [task EXCEPT ![t].pc = "done", ![t].res = "fail"]
    /\ UNCHANGED <<config, now, issued, tokens, subs, payments, subscription_cache,
                   subscription_data, notified, hist>>

\* lines 462-463: await update_subscription(user_id, plan_days), of handlers/subscription.py
PpGrant(t) ==
    /\ task[t].pc = "pp_token"
    /\ task' = [task EXCEPT ![t] =
                  HusEnter(task[t], task[t].snap.user_id, task[t].days, "pp_return")]
    /\ UNCHANGED <<config, now, issued, tokens, subs, payments, subscription_cache,
                   subscription_data, notified, hist>>

\* lines 465-466: return True
PpReturn(t) ==
    /\ task[t].pc = "pp_return"
    /\ task' = [task EXCEPT ![t].pc = "done", ![t].res = "ok"]
    /\ hist' = Reported(hist, task[t].pay, task[t].user)
    /\ UNCHANGED <<config, now, issued, tokens, subs, payments, subscription_cache,
                   subscription_data, notified>>

\* reject_manual_payment lines 514-519: await db.update_payment_status(.., "rejected")
RejectManualStart(t, p) ==
    /\ Idle(t)
    /\ payments' = DbUpdatePaymentStatus(payments, p, "rejected")
    /\ task' = [task EXCEPT ![t] =
                  [IdleFrame EXCEPT !.pc = "rm_updated", !.op = "reject_manual_payment",
                                    !.pay = p, !.arg = "rejected",
                                    !.ok = payments[p] # None
                                           /\ payments[p].status = "pending"]]
    /\ UNCHANGED <<config, now, issued, tokens, subs, subscription_cache,
                   subscription_data, notified, hist>>

\* lines 521-526: return success
RejectManualFinish(t) ==
    /\ task[t].pc = "rm_updated"
    /\ task' = [task EXCEPT ![t].pc = "done",
                            ![t].res = IF task[t].ok THEN "ok" ELSE "fail"]
    /\ UNCHANGED <<config, now, issued, tokens, subs, payments, subscription_cache,
                   subscription_data, notified, hist>>

----------------------------------------------------------------------------
(* webhook_handler.py *)

\* handle_stripe_webhook lines 30-38: the ids come in the event's metadata;
\* await db.update_payment_status(payment_id, 'completed')
StripeStart(t, p) ==
    /\ Idle(t)
    /\ hist.grants < MaxGrants
    /\ payments[p] # None
    /\ payments' = DbUpdatePaymentStatus(payments, p, "completed")
    /\ task' = [task EXCEPT ![t] =
                  [IdleFrame EXCEPT !.pc = "wh_updated", !.op = "handle_stripe_webhook",
                                    !.pay = p, !.arg = "completed",
                                    !.user = payments[p].user_id,
                                    !.days = payments[p].plan_days,
                                    !.late = hist.reports[p] > 0]]
    /\ hist' = [hist EXCEPT !.grants = @ + 1]
    /\ UNCHANGED <<config, now, issued, tokens, subs, subscription_cache,
                   subscription_data, notified>>

\* handle_paypal_webhook line 71, handle_upi_confirmation line 108:
\* await self.db.get_payment(payment_id)
LookupStart(t, p, handler) ==
    /\ Idle(t)
    /\ hist.grants < MaxGrants
    /\ task' = [task EXCEPT ![t] =
                  [IdleFrame EXCEPT !.pc = "wh_got", !.op = handler, !.pay = p,
                                    !.arg = "completed",
                                    !.snap = DbGetPayment(payments, p),
                                    !.late = hist.reports[p] > 0]]
    /\ hist' = [hist EXCEPT !.grants = @ + 1]
    /\ UNCHANGED <<config, now, issued, tokens, subs, payments, subscription_cache,
                   subscription_data, notified>>

\* lines 72-81 and 109-118: no record returns False; else the user and the days of
\* the record, and await db.update_payment_status(payment_id, 'completed')
LookupResume(t) ==
    /\ task[t].pc = "wh_got"
    /\ IF task[t].snap = None
       THEN /\ task' = [task EXCEPT ![t].pc = "done", ![t].res = "fail"]
            /\ UNCHANGED payments
       ELSE /\ payments' = DbUpdatePaymentStatus(payments, task[t].pay, "completed")
            /\ task' = [task EXCEPT ![t].pc = "wh_updated",
                                    ![t].user = task[t].snap.user_id,
                                    ![t].days = task[t].snap.plan_days]
    /\ UNCHANGED <<config, now, issued, tokens, subs, subscription_cache,
                   subscription_data, notified, hist>>

\* lines 41, 84, 121: await update_user_subscription(user_id, plan_days)
WebhookGrant(t) ==
    /\ task[t].pc = "wh_updated"
    /\ task' = [task EXCEPT ![t] =
                  UusEnter(task[t], task[t].user, task[t].days, "wh_confirm")]
    /\ UNCHANGED <<config, now, issued, tokens, subs, payments, subscription_cache,
                   subscription_data, notified, hist>>

\* lines 44-55, 87-98, 124-136: the confirmation message, return True
WebhookReturn(t) ==
    /\ task[t].pc = "wh_confirm"
    /\ task' = [task EXCEPT ![t].pc = "done", ![t].res = "ok"]
    /\ hist' = [Reported(hist, task[t].pay, task[t].user)
                  EXCEPT !.deliveries[task[t].pay] = Sat(@)]
    /\ UNCHANGED <<config, now, issued, tokens, subs, payments, subscription_cache,
                   subscription_data, notified>>

----------------------------------------------------------------------------
(* handlers/admin.py *)

\* handlers/subscription.get_plan_details line 156: plan_type.lower(); the
\* argument must be a string
GetPlanDetailsRaises(arg_is_string) == ~arg_is_string

\* approve_payment line 609, reject_payment line 697: await db.get_payment(payment_id)
AdminStart(t, p, handler) ==
    /\ Idle(t)
    /\ task' = [task EXCEPT ![t] =
                  [IdleFrame EXCEPT !.pc = "ad_got", !.op = handler, !.pay = p,
                                    !.snap = DbGetPayment(payments, p)]]
    /\ UNCHANGED <<config, now, issued, tokens, subs, payments, subscription_cache,
                   subscription_data, notified, hist>>

\* approve_payment lines 611-631: not found, not pending, else
\* get_plan_details(plan_days) is called with the record's integer day count and
\* raises; the handler's except reports the error.
\* reject_payment lines 699-718: not found, not pending, else
\* await db.update_payment_status(payment_id, 'rejected')
AdminResume(t) ==
    /\ task[t].pc = "ad_got"
    /\ LET f == task[t]
       IN  IF f.snap = None
           THEN /\ task' = [task EXCEPT ![t].pc = "done", ![t].res = "not_found"]
                /\ UNCHANGED payments
           ELSE IF f.snap.status # "pending"
           THEN /\ task' = [task EXCEPT ![t].pc = "done", ![t].res = "not_pending"]
                /\ UNCHANGED payments
           ELSE IF f.op = "approve_payment"
           THEN /\ GetPlanDetailsRaises(FALSE)
                /\ task' = [task EXCEPT ![t].pc = "done", ![t].res = "error"]
                /\ UNCHANGED payments
           ELSE /\ payments' = DbUpdatePaymentStatus(payments, f.pay, "rejected")
                /\ task' = [task EXCEPT ![t].pc = "done", ![t].res = "ok",
                                        ![t].arg = "rejected"]
    /\ UNCHANGED <<config, now, issued, tokens, subs, subscription_cache,
                   subscription_data, notified, hist>>

----------------------------------------------------------------------------
(* Token strings of utils/token_manager.py: "<encoded payload>.<signature>". *)
(* A string is the sequence of its dot-separated parts.  The MAC is ideal:  *)
(* digests are equal only for the same key and the same message.           *)

ServerKey == "TOKEN_SECRET_KEY"
OtherKeys == {"guessed"}

\* hmac.new(key, message, hashlib.sha256).hexdigest()
Mac(key, message) == [key |-> key, over |-> message]

\* token_manager.generate_signature: the MAC of the data under TOKEN_SECRET_KEY
generate_signature(data) == Mac(ServerKey, data)

\* a part that is no hex digest
NoDigest == [key |-> "none", over |-> None]

\* base64.urlsafe_b64encode(json.dumps(token_data)); the uuid makes every token distinct
Encode(k, payload) == [b64 |-> TRUE, uuid |-> k, json |-> payload]

\* a part that is not the encoding of a JSON object
NotEncoded == [b64 |-> FALSE, uuid |-> 0, json |-> None]

\* lines 74-75: urlsafe_b64decode and json.loads raise on such a part
Decodable(part) == part.b64
Decode(part) == part.json

\* lines 36-45: the token string generate_token returned for token k
TokenString(k) == <<Encode(k, issued[k]), generate_signature(Encode(k, issued[k]))>>

\* line 70: hmac.compare_digest(signature, expected_signature)
SignatureMatches_Any(signature, expected) == TRUE
SignatureMatches(signature, expected) == signature = expected

\* token_manager.validate_token lines 60-85: <<ok, token_data>>
TmValidateToken(token, cur) ==
    IF Len(token) # 2 THEN <<FALSE, None>>
    ELSE IF ~SignatureMatches(token[2], generate_signature(token[1])) THEN <<FALSE, None>>
    ELSE IF ~Decodable(token[1]) THEN <<FALSE, None>>
    ELSE IF ExpiredInPayload(cur, Decode(token[1])) THEN <<FALSE, None>>
    ELSE <<TRUE, Decode(token[1])>>

\* what a client can put in the payload part: an issued payload as it is, an
\* issued payload with the days or the expiry changed, or no encoding at all
PayloadParts ==
    UNION {{Encode(k, issued[k]),
            Encode(k, [issued[k] EXCEPT !.plan_days = STANDARD_PLAN_DAYS]),
            Encode(k, [issued[k] EXCEPT !.expires_at = @ + TOKEN_EXPIRY_HOURS])} :
           k \in {x \in TokenIds : issued[x] # None}}
    \cup {NotEncoded}

\* what a client can put in the signature part: the signature of an issued
\* token, a MAC under a key of its own, or no digest at all
SignatureParts(part) ==
    {generate_signature(Encode(k, issued[k])) : k \in {x \in TokenIds : issued[x] # None}}
    \cup {Mac(key, part) : key \in OtherKeys}
    \cup {NoDigest}

\* the strings a client can present: one, two or three parts
Presentable ==
    {<<p>> : p \in PayloadParts}
    \cup UNION {{<<p, sg>> : sg \in SignatureParts(p)} : p \in PayloadParts}
    \cup UNION {{<<p, sg, sg>> : sg \in SignatureParts(p)} : p \in PayloadParts}

\* the two entries to token_manager.validate_token
TmOps == {"tm_validate_token", "validate_verification_token"}

\* a call of token_manager.validate_token(token); it has no await
TmCall(t, token, op) ==
    /\ Idle(t)
    /\ LET r == TmValidateToken(token, now)
       IN  /\ task' = [task EXCEPT ![t] =
                         [IdleFrame EXCEPT !.pc = "done", !.op = op, !.at = now,
                                           !.token = token,
                                           !.late = \E o \in TmOps : <<o, token>> \in hist.accepted,
                                           !.replay = <<op, token>> \in hist.accepted,
                                           !.res = IF r[1] THEN "ok" ELSE "fail",
                                           !.data = r[2]]]
           /\ hist' = [hist EXCEPT !.accepted = IF r[1] THEN @ \cup {<<op, token>>} ELSE @]
    /\ UNCHANGED <<config, now, issued, tokens, subs, payments, subscription_cache,
                   subscription_data, notified>>

TmValidateString(t, token) == TmCall(t, token, "tm_validate_token")

\* integration.validate_verification_token line 139: return validate_token(token)
ValidateVerificationToken(t, token) == TmCall(t, token, "validate_verification_token")

----------------------------------------------------------------------------
(* __main__.start_command with a deep-link token, lines 62-105 *)

\* line 72: token_data.get("plan_days", 0)
PlanDaysOf_Sealed(token_data) == BASIC_PLAN_DAYS
PlanDaysOf(token_data) ==
    IF "plan_days" \in DOMAIN token_data THEN token_data.plan_days ELSE 0

\* line 69, into validate_token line 117: await get_token_by_value(token)
StartCommandLookup(t, u, k) ==
    /\ Idle(t)
    /\ task' = [task EXCEPT ![t] =
                  [IdleFrame EXCEPT !.pc = "sc_lookup", !.op = "start_command",
                                    !.user = u, !.tok = k,
                                    !.snap = DbGetToken(tokens, k)]]
    /\ UNCHANGED <<config, now, issued, tokens, subs, payments, subscription_cache,
                   subscription_data, notified, hist>>

\* validate_token lines 119-134, and the reply of lines 95-98 on (False, None)
StartCommandCheck(t) ==
    /\ task[t].pc = "sc_lookup"
    /\ LET f == task[t]
       IN  IF f.snap = None \/ ExpiredAtStore(now, f.snap) \/ AlreadyUsed(f.snap)
           THEN /\ task' = [task EXCEPT ![t].pc = "done", ![t].res = "fail",
                                        ![t].arg = "invalid"]
                /\ UNCHANGED tokens
           ELSE /\ tokens' = DbUseToken(tokens, f.tok)
                /\ task' = [task EXCEPT ![t].pc = "sc_mark"]
    /\ UNCHANGED <<config, now, issued, subs, payments, subscription_cache,
                   subscription_data, notified, hist>>

\* validate_token line 136 returns (True, token_data); start_command lines 70-75
\* read the days from it and call update_user_subscription, or reply lines 89-92
StartCommandValidated(t) ==
    /\ task[t].pc = "sc_mark"
    /\ LET f == task[t]
           plan_days == PlanDaysOf(f.snap)
       IN  IF plan_days > 0
           THEN task' = [task EXCEPT ![t] =
                           UusEnter([f EXCEPT !.ok = TRUE, !.res = "ok"],
                                    f.user, plan_days, "sc_reply")]
           ELSE task' = [task EXCEPT ![t].pc = "done", ![t].ok = TRUE,
                                     ![t].res = "ok", ![t].arg = "verified"]
    /\ hist' = [hist EXCEPT !.redeemed[task[t].tok] = @ + 1]
    /\ UNCHANGED <<config, now, issued, tokens, subs, payments, subscription_cache,
                   subscription_data, notified>>

\* lines 76-80: the reply after update_user_subscription returned
StartCommandReply(t) ==
    /\ task[t].pc = "sc_reply"
    /\ task' = [task EXCEPT ![t].pc = "done", ![t].arg = "activated"]
    /\ UNCHANGED <<config, now, issued, tokens, subs, payments, subscription_cache,
                   subscription_data, notified, hist>>

----------------------------------------------------------------------------
(* __main__.verify_command, lines 182-205 *)

\* line 194, into validate_token line 117: await get_token_by_value(token)
VerifyCommandLookup(t, u, k) ==
    /\ Idle(t)
    /\ task' = [task EXCEPT ![t] =
                  [IdleFrame EXCEPT !.pc = "vc_lookup", !.op = "verify_command",
                                    !.user = u, !.tok = k,
                                    !.snap = DbGetToken(tokens, k)]]
    /\ UNCHANGED <<config, now, issued, tokens, subs, payments, subscription_cache,
                   subscription_data, notified, hist>>

\* validate_token lines 119-134, and the reply of line 205 on (False, None)
VerifyCommandCheck(t) ==
    /\ task[t].pc = "vc_lookup"
    /\ LET f == task[t]
       IN  IF f.snap = None \/ ExpiredAtStore(now, f.snap) \/ AlreadyUsed(f.snap)
           THEN /\ task' = [task EXCEPT ![t].pc = "done", ![t].res = "fail",
                                        ![t].arg = "invalid"]
                /\ UNCHANGED tokens
           ELSE /\ tokens' = DbUseToken(tokens, f.tok)
                /\ task' = [task EXCEPT ![t].pc = "vc_mark"]
    /\ UNCHANGED <<config, now, issued, subs, payments, subscription_cache,
                   subscription_data, notified, hist>>

\* validate_token line 136 returns (True, token_data); verify_command line 198
\* reads token_data['plan_days'] (KeyError when the key is absent) and calls
\* update_user_subscription for the caller
VerifyCommandValidated(t) ==
    /\ task[t].pc = "vc_mark"
    /\ LET f == task[t]
       IN  IF "plan_days" \in DOMAIN f.snap
           THEN task' = [task EXCEPT ![t] =
                           UusEnter([f EXCEPT !.ok = TRUE, !.res = "ok"],
                                    f.user, f.snap.plan_days, "vc_reply")]
           ELSE task' = [task EXCEPT ![t].pc = "done", ![t].ok = TRUE,
                                     ![t].res = "error", ![t].arg = "KeyError"]
    /\ hist' = [hist EXCEPT !.redeemed[task[t].tok] = @ + 1]
    /\ UNCHANGED <<config, now, issued, tokens, subs, payments, subscription_cache,
                   subscription_data, notified>>

----------------------------------------------------------------------------
(* Signed session tokens: token_generator.generate_access_token and        *)
(* verify_access_token.  A JWT is <<payload, signature>>; the Fernet layer *)
(* is a wrapping that decrypt takes off again.                             *)

\* lines 158-164: the JWT payload (hours for seconds)
AccessPayload(u, d, cur) ==
    [user_id |-> u, subscription_days |-> d, exp |-> cur + d * DAY, iat |-> cur]

\* line 168: jwt.encode(payload, TOKEN_SECRET_KEY, algorithm="HS256")
JwtEncode(k, payload, key) == <<Encode(k, payload), Mac(key, Encode(k, payload))>>

\* line 172: encryption_key.encrypt(jwt_token)
Encrypt(jwt_token) == [fernet |-> TRUE, inner |-> jwt_token]
Plain(jwt_token) == [fernet |-> FALSE, inner |-> jwt_token]

\* lines 197-202: decrypt; a token that does not decrypt is taken as a plain JWT
Decrypt(token) == token.inner

\* generate_access_token for a known user: the token is returned encrypted
\* (line 174); line 177 returns the plain JWT when there is no encryption key
GenerateAccessToken(u, d) ==
    /\ FreeTokenIds # {}
    /\ LET k == CHOOSE x \in FreeTokenIds : \A y \in FreeTokenIds : x <= y
       IN  issued' = [issued EXCEPT ![k] = AccessPayload(u, d, now)]
    /\ UNCHANGED <<config, now, tokens, subs, payments, subscription_cache,
                   subscription_data, task, notified, hist>>

\* the session tokens a client holds, encrypted or plain, and forgeries of
\* them: a longer life under the old signature, or signed with another key
AccessStrings ==
    UNION {{Encrypt(JwtEncode(k, issued[k], ServerKey)),
            Plain(JwtEncode(k, issued[k], ServerKey)),
            Plain(<<Encode(k, [issued[k] EXCEPT !.exp = @ + BASIC_PLAN_DAYS * DAY]),
                    Mac(ServerKey, Encode(k, issued[k]))>>),
            Plain(JwtEncode(k, [issued[k] EXCEPT !.exp = @ + BASIC_PLAN_DAYS * DAY],
                            "guessed"))} :
           k \in {x \in TokenIds : issued[x] # None}}

\* the expiry checks of lines 205-210: jwt.decode raises ExpiredSignatureError
\* from exp on (at_exp: whether the installed PyJWT already rejects at
\* now = exp), and line 208 rejects when int(time.time()) > payload["exp"]
AccessTokenExpired_Never(cur, payload, at_exp) == FALSE
AccessTokenExpired(cur, payload, at_exp) ==
    \/ IF at_exp THEN payload.exp <= cur ELSE payload.exp < cur
    \/ cur > payload.exp

\* verify_access_token lines 193-221: <<ok, payload>>
VerifyAccessResult(token, cur, at_exp) ==
    LET jwt_token == Decrypt(token)
    IN  IF jwt_token[2] # Mac(ServerKey, jwt_token[1]) THEN <<FALSE, None>>
        ELSE IF AccessTokenExpired(cur, Decode(jwt_token[1]), at_exp)
        THEN <<FALSE, None>>
        ELSE <<TRUE, Decode(jwt_token[1])>>

\* a call of verify_access_token(token); it has no await
VerifyAccessToken(t, token) ==
    /\ Idle(t)
    /\ \E at_exp \in BOOLEAN :
          LET r == VerifyAccessResult(token, now, at_exp)
              op == "verify_access_token"
          IN  /\ task' = [task EXCEPT ![t] =
                            [IdleFrame EXCEPT !.pc = "done", !.op = op, !.at = now,
                                              !.token = token,
                                              !.replay = <<op, token>> \in hist.accepted,
                                              !.res = IF r[1] THEN "ok" ELSE "fail",
                                              !.data = r[2]]]
              /\ hist' = [hist EXCEPT !.accepted =
                                        IF r[1] THEN @ \cup {<<op, token>>} ELSE @]
    /\ UNCHANGED <<config, now, issued, tokens, subs, payments, subscription_cache,
                   subscription_data, notified>>

----------------------------------------------------------------------------
(* The background loops: utils/maintenance.maintenance_task and             *)
(* NotificationManager.start_notification_scheduler (utils/notification.py) *)

\* the days-left values at which a reminder goes out (notification.py line 150)
Thresholds == {7, 3, 1, 0}

MaintTask == "t1"
SchedTask == "t2"

HOUR_SECONDS == 3600
SWEEP_INTERVAL_SECONDS == 3600
BACKOFF_SECONDS == 300

\* asyncio.sleep(seconds) begun at hour `since` can have returned when the
\* clock reads `cur`: the clock shows whole hours, so a sleep shorter than an
\* hour may end within the hour it began in
SleepOver(since, seconds, cur) == (cur - since + 1) * HOUR_SECONDS > seconds

\* maintenance.py line 20, processed_count > 0: process_expired_subscriptions
\* returns a list (subscription_manager.py lines 305, 309), and a list
\* compared with an int raises TypeError
CountComparisonRaises(processed_is_list) == processed_is_list

\* maintenance.py line 44: except Exception
HandlerCatches_Nothing(exc) == FALSE
HandlerCatches(exc) == exc \in {"TypeError", "Exception"}

\* get_expiring_subscriptions lines 319-333: active records ending in [now, now + days_ahead]
ExpiringWithin(store, cur, days_ahead) ==
    {u \in DOMAIN store :
        /\ store[u] # None
        /\ store[u].status = "active"
        /\ store[u].end_date >= cur
        /\ store[u].end_date <= cur + days_ahead * DAY}

\* maintenance_task lines 19-20 and 44-46, after process_expired_subscriptions
\* returned: the comparison of line 20 raises, the handler logs and sleeps 300 s;
\* were the comparison to pass, lines 24-26 go on to await get_expiring_subscriptions(7)
MtAfterSweep(t) ==
    /\ Done(t)
    /\ task[t].op = "process_expired_subscriptions"
    /\ IF CountComparisonRaises(TRUE)
       THEN IF HandlerCatches("TypeError")
            THEN task' = [task EXCEPT ![t] =
                            [IdleFrame EXCEPT !.pc = "mt_sleep", !.op = "maintenance_task",
                                              !.arg = "TypeError", !.at = now,
                                              !.sleep = BACKOFF_SECONDS]]
            ELSE task' = [task EXCEPT ![t] =
                            [IdleFrame EXCEPT !.pc = "ended", !.op = "maintenance_task",
                                              !.arg = "TypeError", !.at = now]]
       ELSE \E q \in Orderings(ExpiringWithin(subs, now, 7)) :
               task' = [task EXCEPT ![t] =
                          [IdleFrame EXCEPT !.pc = "mt_remind", !.op = "maintenance_task",
                                            !.queue = q, !.before = subs, !.at = now]]
    /\ UNCHANGED <<config, now, issued, tokens, subs, payments, subscription_cache,
                   subscription_data, notified, hist>>

\* maintenance_task lines 27-43: days_left of the next record, the reminder
\* at 7, 3 and 1 days, and after the last record the hourly sleep
MtRemind(t) ==
    /\ task[t].pc = "mt_remind"
    /\ LET f == task[t]
           u == Head(f.queue)
           days_left == (f.before[u].end_date - now) \div DAY
       IN  IF f.queue = <<>>
           THEN /\ task' = [task EXCEPT ![t].pc = "mt_sleep", ![t].at = now,
                                        ![t].sleep = SWEEP_INTERVAL_SECONDS]
                /\ UNCHANGED notified
           ELSE /\ task' = [task EXCEPT ![t].queue = Tail(@)]
                /\ notified' = IF days_left \in {7, 3, 1}
                               THEN [notified EXCEPT !.reminder[u][days_left] = Sat(@)]
                               ELSE notified
    /\ UNCHANGED <<config, now, issued, tokens, subs, payments, subscription_cache,
                   subscription_data, hist>>

\* lines 43 and 46: asyncio.sleep returns, while True starts the next
\* iteration at line 19
MtWake(t) ==
    /\ task[t].pc = "mt_sleep"
    /\ SleepOver(task[t].at, task[t].sleep, now)
    /\ task' = [task EXCEPT ![t] = IdleFrame]
    /\ UNCHANGED <<config, now, issued, tokens, subs, payments, subscription_cache,
                   subscription_data, notified, hist>>

\* db.get_all_active_subscriptions(): the users with a record of status active
DbGetAllActiveSubscriptions(store) ==
    {u \in DOMAIN store : store[u] # None /\ store[u].status = "active"}

\* db.update_notification_status(user_id, when): the last-notified time
DbUpdateNotificationStatus(n, u, when) == [n EXCEPT !.last_notified[u] = when]

\* notification.py line 152: last_notified and (now - last_notified).days < 1
NotifiedToday_Never(last_notified, cur) == FALSE
NotifiedToday(last_notified, cur) ==
    last_notified # NoDate /\ (cur - last_notified) \div DAY < 1

\* check_expiring_subscriptions lines 132-136: await db.get_all_active_subscriptions();
\* the records come with their expiry and their last-notified time
NmCheckStart(t) ==
    /\ Idle(t)
    /\ \E q \in Orderings(DbGetAllActiveSubscriptions(subs)) :
          task' = [task EXCEPT ![t] =
                     [IdleFrame EXCEPT !.pc = "nm_loop",
                                       !.op = "check_expiring_subscriptions",
                                       !.queue = q, !.before = subs,
                                       !.snap = notified.last_notified]]
    /\ UNCHANGED <<config, now, issued, tokens, subs, payments, subscription_cache,
                   subscription_data, notified, hist>>

\* lines 138-155 and send_expiry_notification lines 42-58, 65-67: now is read
\* once (line 138); for the next record days_left is computed, a record
\* notified within the last day is skipped, and otherwise bot.send_message is
\* awaited, which delivers or raises TelegramError; after the last record the
\* scheduler sleeps a day (line 176)
NmLoop(t) ==
    /\ task[t].pc = "nm_loop"
    /\ LET f == task[t]
           cur == IF f.at = NoDate THEN now ELSE f.at
           u == Head(f.queue)
           days_left == (f.before[u].end_date - cur) \div DAY
       IN  IF f.queue = <<>>
           THEN /\ task' = [task EXCEPT ![t].pc = "nm_sleep", ![t].at = now,
                                        ![t].op = "start_notification_scheduler",
                                        ![t].sleep = DAY * HOUR_SECONDS]
                /\ UNCHANGED notified
           ELSE IF days_left \in Thresholds /\ ~NotifiedToday(f.snap[u], cur)
           THEN \E delivered \in BOOLEAN :
                   IF delivered
                   THEN /\ notified' = [notified EXCEPT !.reminder[u][days_left] = Sat(@)]
                        /\ task' = [task EXCEPT ![t].pc = "nm_sent", ![t].at = cur,
                                                ![t].user = u, ![t].days = days_left]
                   ELSE /\ task' = [task EXCEPT ![t].queue = Tail(@), ![t].at = cur]
                        /\ UNCHANGED notified
           ELSE /\ task' = [task EXCEPT ![t].queue = Tail(@), ![t].at = cur]
                /\ UNCHANGED notified
    /\ UNCHANGED <<config, now, issued, tokens, subs, payments, subscription_cache,
                   subscription_data, hist>>

\* send_expiry_notification line 61: await db.update_notification_status(user_id, datetime.now())
NmRecord(t) ==
    /\ task[t].pc = "nm_sent"
    /\ notified' = DbUpdateNotificationStatus(notified, task[t].user, now)
    /\ task' = [task EXCEPT ![t].pc = "nm_loop", ![t].queue = Tail(@)]
    /\ UNCHANGED <<config, now, issued, tokens, subs, payments, subscription_cache,
                   subscription_data, hist>>

\* start_notification_scheduler lines 169-176: the sleep returns, the next check begins
NmWake(t) ==
    /\ task[t].pc = "nm_sleep"
    /\ SleepOver(task[t].at, task[t].sleep, now)
    /\ task' = [task EXCEPT ![t] = IdleFrame]
    /\ UNCHANGED <<config, now, issued, tokens, subs, payments, subscription_cache,
                   subscription_data, notified, hist>>

----------------------------------------------------------------------------
(* Upstream failures: the store refuses a write, the chat API refuses a message *)

\* update_subscription lines 106-119 when db.add_subscription fails: a False
\* result (lines 114-116) and an exception (lines 117-119) both return
\* subscription_data; nothing is written
UusWriteFails(t) ==
    /\ task[t].pc = "uus_got"
    /\ LET f == task[t]
           expiry == NewExpiry(f.snap, now, f.days)
       IN  task' = [task EXCEPT ![t].pc = "uus_written", ![t].exp = expiry,
                                ![t].fault = "store"]
    /\ UNCHANGED <<config, now, issued, tokens, subs, payments, subscription_cache,
                   subscription_data, notified, hist>>

\* update_user_subscription lines 183-188 when the activation message cannot be
\* delivered: the notification layer logs the failure and returns
UusFinishUndelivered(t) ==
    /\ task[t].pc = "uus_written"
    /\ task[t].fault = "none"
    /\ LET f == task[t]
           entry == [plan |-> PlanTypeOfDays(f.days), is_active |-> TRUE,
                     expiry_date |-> f.exp]
       IN  /\ subscription_cache' = [subscription_cache EXCEPT ![f.user] = entry]
           /\ task' = [task EXCEPT ![t].pc = IF f.ret = "none" THEN "done" ELSE f.ret,
                                   ![t].res = IF f.ret = "none" THEN "ok" ELSE f.res,
                                   ![t].data = entry, ![t].fault = "notify"]
    /\ UNCHANGED <<config, now, issued, tokens, subs, payments, subscription_data,
                   notified, hist>>

\* update_subscription line 105 when the clock has moved between the
\* datetime.now() of line 167 (under expiry_date) and the datetime.now() of line
\* 174 (start_date): start_date is later by less than a unit of the clock, and
\* timedelta.days is the floor of the difference
WholeDaysLate(expiry, start) == (expiry - start - 1) \div DAY

\* update_user_subscription lines 148-180 and update_subscription lines 103-110
\* with the second clock reading later than the first: await db.add_subscription
UusWriteLate(t) ==
    /\ task[t].pc = "uus_got"
    /\ LET f == task[t]
           expiry == NewExpiry(f.snap, now, f.days)
           start_date == now
           plan_days == WholeDaysLate(expiry, start_date)
       IN  /\ subs' = DbAddSubscription(subs, f.user, PlanTypeOfDays(f.days),
                                        plan_days, now)
           /\ task' = [task EXCEPT ![t].pc = "uus_written", ![t].exp = expiry]
           /\ hist' = [hist EXCEPT !.revoked[f.user] = FALSE]
    /\ UNCHANGED <<config, now, issued, tokens, payments, subscription_cache,
                   subscription_data, notified>>

\* webhook_handler lines 44-52, 57-59 (and 87-102, 124-140): bot.send_message
\* raises, the handler logs and returns False
WebhookConfirmFails(t) ==
    /\ task[t].pc = "wh_confirm"
    /\ task' = [task EXCEPT ![t].pc = "done", ![t].res = "fail", ![t].fault = "notify"]
    /\ UNCHANGED <<config, now, issued, tokens, subs, payments, subscription_cache,
                   subscription_data, notified, hist>>

----------------------------------------------------------------------------
(* utils/integration.py: the gate the target bot asks before a command *)

\* requires_authorization lines 96-127: the command is in the restricted list
RestrictedCommands == {"mirror"}
Commands == {"mirror", "help"}
requires_authorization(command) == command \in RestrictedCommands

\* check_subscription_expiry lines 136-141: no subscription is False, else
\* subscription.get("is_active", False)
IsAuthorized(subscription) == subscription # None /\ subscription.is_active

\* intercept_command lines 69-74, check_user_authorization line 28,
\* check_subscription_expiry line 136 and handlers' get_subscription_status
\* lines 31-38: a command outside the list proceeds; else the cached entry is
\* the answer, or the store is asked (await db.get_subscription)
IcStart(t, u, command) ==
    /\ Idle(t)
    /\ LET c == subscription_data[u]
           f == [IdleFrame EXCEPT !.op = "intercept_command", !.user = u,
                                  !.arg = command, !.at = now]
       IN  task' = [task EXCEPT ![t] =
                      IF ~requires_authorization(command)
                      THEN [f EXCEPT !.pc = "done", !.res = "ok", !.ok = TRUE]
                      ELSE IF c # None /\ c.expiry_date = NoDate
                      THEN [f EXCEPT !.pc = "ic_checked", !.data = None]
                      ELSE IF c # None /\ CacheFresh(c, now) /\ c.is_active
                      THEN [f EXCEPT !.pc = "ic_checked", !.data = c]
                      ELSE [f EXCEPT !.pc = "ic_got",
                                     !.snap = DbGetSubscription(subs, u, now)]]
    /\ UNCHANGED <<config, now, issued, tokens, subs, payments, subscription_cache,
                   subscription_data, notified, hist>>

\* handlers' get_subscription_status lines 40-48: an active record is cached,
\* any other drops the cache entry; what the store returned is returned
IcResume(t) ==
    /\ task[t].pc = "ic_got"
    /\ LET f == task[t]
       IN  /\ subscription_data' =
                 IF f.snap # None /\ f.snap.is_active
                 THEN [subscription_data EXCEPT ![f.user] = f.snap]
                 ELSE [subscription_data EXCEPT ![f.user] = None]
           /\ task' = [task EXCEPT ![t].pc = "ic_checked", ![t].data = f.snap]
    /\ UNCHANGED <<config, now, issued, tokens, subs, payments, subscription_cache,
                   notified, hist>>

\* handlers' get_subscription_status lines 49-51 when the store read raises:
\* the error is logged and None is returned
IcLookupFails(t) ==
    /\ task[t].pc = "ic_got"
    /\ task' = [task EXCEPT ![t].pc = "ic_checked", ![t].data = None,
                            ![t].fault = "store"]
    /\ UNCHANGED <<config, now, issued, tokens, subs, payments, subscription_cache,
                   subscription_data, notified, hist>>

\* check_user_authorization lines 30-40 and intercept_command lines 76-77: an
\* authorized user proceeds; else the verification link is built
\* (await shorten_url)
IcChecked(t) ==
    /\ task[t].pc = "ic_checked"
    /\ task' = IF IsAuthorized(task[t].data)
               THEN [task EXCEPT ![t].pc = "done", ![t].res = "ok", ![t].ok = TRUE]
               ELSE [task EXCEPT ![t].pc = "ic_link"]
    /\ UNCHANGED <<config, now, issued, tokens, subs, payments, subscription_cache,
                   subscription_data, notified, hist>>

\* check_user_authorization lines 41-54 and intercept_command lines 78-79: the
\* message with the link, or, when the link generation raised, the error
\* message of line 54; both come with False
IcLink(t) ==
    /\ task[t].pc = "ic_link"
    /\ \E raised \in BOOLEAN :
          task' = [task EXCEPT ![t].pc = "done", ![t].res = "fail", ![t].ok = FALSE,
                               ![t].fault = IF raised THEN "link" ELSE @]
    /\ UNCHANGED <<config, now, issued, tokens, subs, payments, subscription_cache,
                   subscription_data, notified, hist>>

----------------------------------------------------------------------------
(* Initial state: an empty store, empty caches, no coroutine in flight *)

Configs == [auto_revoke : BOOLEAN, free_tier_fallback : BOOLEAN]

\* auth_bot/__init__.py lines 114-115: both default to true
DefaultConfig == [auto_revoke |-> TRUE, free_tier_fallback |-> TRUE]

\* a record that a basic grant made at hour 0 by an earlier run of the process
\* left in the store
StoredBasic ==
    [plan_type |-> "basic", plan_days |-> BASIC_PLAN_DAYS,
     end_date |-> BASIC_PLAN_DAYS * DAY, status |-> "active"]

\* nothing sent yet, no last-notified time in the store
NoNotifications ==
    [activated |-> [u \in Users |-> 0], expired |-> [u \in Users |-> 0],
     reminder |-> [u \in Users |-> [d \in Thresholds |-> 0]],
     last_notified |-> [u \in Users |-> NoDate]]

BootQuiet ==
    /\ now = 0
    /\ issued = [k \in TokenIds |-> None]
    /\ tokens = [k \in TokenIds |-> None]
    /\ payments = [p \in PaymentIds |-> None]
    /\ subscription_cache = [u \in Users |-> None]
    /\ subscription_data = [u \in Users |-> None]
    /\ task = [t \in Tasks |-> IdleFrame]
    /\ hist = [looked |-> [k \in TokenIds |-> FALSE],
               redeemed |-> [k \in TokenIds |-> 0],
               grants |-> 0,
               revoked |-> [u \in Users |-> FALSE],
               reports |-> [p \in PaymentIds |-> 0],
               first_end |-> [p \in PaymentIds |-> NoDate],
               deliveries |-> [p \in PaymentIds |-> 0],
               handled |-> [u \in Users |-> FALSE],
               accepted |-> {}]

Boot ==
    /\ BootQuiet
    /\ notified = NoNotifications

Init ==
    /\ config \in Configs
    /\ subs = [u \in Users |-> None]
    /\ Boot

\* the process starts on a store that may hold a record from an earlier run
RestartInit ==
    /\ config \in Configs
    /\ subs \in {[u \in Users |-> IF u \in GrantUsers THEN r ELSE None] :
                    r \in {None, StoredBasic}}
    /\ Boot

\* the flags at their defaults, an empty store
DefaultInit ==
    /\ config = DefaultConfig
    /\ subs = [u \in Users |-> None]
    /\ Boot

(* Token runs: issue, validate (both codecs), clock *)
TokenNext ==
    \/ \E u \in Users, d \in {0, BASIC_PLAN_DAYS} : GenerateToken(u, d)
    \/ \E u \in Users, d \in {0, BASIC_PLAN_DAYS} : TmGenerateToken(u, d)
    \/ \E t \in Tasks, k \in TokenIds : ValidateLookup(t, k)
    \/ \E t \in Tasks : ValidateCheck(t)
    \/ \E t \in Tasks : ValidateReturn(t)
    \/ \E t \in Tasks, k \in TokenIds : TmValidate(t, k)
    \/ \E t \in Tasks : Finish(t)
    \/ TickHour

TokenSpec == DefaultInit /\ [][TokenNext]_vars

(* Subscription runs, one call at a time: a call starts only when no other *)
(* is in flight.  Grants through both modules, reads, revocation, clock.   *)
AllIdle == \A t \in Tasks : Idle(t)
SeqTask == "t1"

ManagerStart(t) ==
    \/ \E u \in GrantUsers, d \in GrantDays : UusStart(t, u, d)
    \/ \E u \in GrantUsers : RevokeStart(t, u)
    \/ \E u \in GrantUsers : GssStart(t, u)

ManagerRun(t) ==
    \/ UusWrite(t)
    \/ UusFinish(t)
    \/ RevokeFinish(t)
    \/ GssResume(t)
    \/ HeAfterRevoke(t)
    \/ HeNotifyAndRecurse(t)
    \/ Finish(t)

HandlersRun(t) ==
    \/ HusWrite(t)
    \/ HusRefresh(t)
    \/ HusFinish(t)

SubSeqNext ==
    \/ \E t \in {SeqTask} : AllIdle /\ ManagerStart(t)
    \/ \E t \in {SeqTask}, u \in GrantUsers, d \in GrantDays :
          AllIdle /\ HusStart(t, u, d)
    \/ \E t \in Tasks : ManagerRun(t)
    \/ \E t \in Tasks : HandlersRun(t)
    \/ \E t \in {SeqTask}, u \in GrantUsers : AllIdle /\ HgsStart(t, u)
    \/ \E t \in {SeqTask}, u \in GrantUsers : AllIdle /\ HrvStart(t, u)
    \/ \E t \in Tasks : HgsResume(t)
    \/ \E t \in Tasks : HrvFinish(t)
    \/ \E t \in {SeqTask}, u \in GrantUsers : AllIdle /\ AdminActionRevokeStart(t, u)
    \/ \E t \in {SeqTask}, u \in GrantUsers : AllIdle /\ HandleRevokeStart(t, u)
    \/ \E t \in Tasks : AdminActionRevokeFinish(t)
    \/ \E t \in Tasks : HandleRevokeWrite(t)
    \/ \E t \in Tasks : HandleRevokeFinish(t)
    \/ TickDays

SubSeqSpec == Init /\ [][SubSeqNext]_vars

(* Subscription runs of subscription_manager.py with calls in flight together *)
SubNext ==
    \/ \E t \in Tasks : ManagerStart(t)
    \/ \E t \in Tasks : ManagerRun(t)
    \/ TickRace

SubSpec == RestartInit /\ [][SubNext]_vars

(* Cache runs: grants, status reads and revocation through both modules, *)
(* one call at a time, on a clock that lands on the expiry of a basic plan *)
HalfWeekSteps == {(BASIC_PLAN_DAYS * DAY) \div 2}

\* the clock of the cache runs moves on
TickHalfWeek ==
    /\ \E step \in HalfWeekSteps :
          /\ now + step <= MaxCacheClockHours
          /\ now' = now + step
    /\ UNCHANGED <<config, issued, tokens, subs, payments, subscription_cache,
                   subscription_data, task, notified, hist>>

CacheNext ==
    \/ \E t \in {SeqTask} : AllIdle /\ ManagerStart(t)
    \/ \E t \in {SeqTask}, u \in GrantUsers, d \in GrantDays :
          AllIdle /\ HusStart(t, u, d)
    \/ \E t \in {SeqTask}, u \in GrantUsers : AllIdle /\ HgsStart(t, u)
    \/ \E t \in {SeqTask}, u \in GrantUsers : AllIdle /\ HrvStart(t, u)
    \/ \E t \in Tasks : ManagerRun(t)
    \/ \E t \in Tasks : HandlersRun(t)
    \/ \E t \in Tasks : HgsResume(t)
    \/ \E t \in Tasks : HrvFinish(t)
    \/ TickHalfWeek

CacheSpec == Init /\ [][CacheNext]_vars

(* Plan runs: grants of every plan length and of one that is no plan's, *)
(* through both modules, one call at a time                             *)
UnmappedDays == 15
PlanDays == {BASIC_PLAN_DAYS, STANDARD_PLAN_DAYS, PREMIUM_PLAN_DAYS, UnmappedDays}

PlanNext ==
    \/ \E t \in {SeqTask}, u \in GrantUsers, d \in PlanDays :
          AllIdle /\ UusStart(t, u, d)
    \/ \E t \in {SeqTask}, u \in GrantUsers, d \in PlanDays :
          AllIdle /\ HusStart(t, u, d)
    \/ \E t \in Tasks : UusWrite(t)
    \/ \E t \in Tasks : UusFinish(t)
    \/ \E t \in Tasks : HandlersRun(t)
    \/ \E t \in Tasks : Finish(t)

PlanSpec == DefaultInit /\ [][PlanNext]_vars

(* Expiry runs: the sweep and status reads over a store that holds records *)
(* from earlier runs, with calls in flight together                        *)
StoredStandard ==
    [plan_type |-> "standard", plan_days |-> STANDARD_PLAN_DAYS,
     end_date |-> STANDARD_PLAN_DAYS * DAY, status |-> "active"]

SweepInit ==
    /\ config \in Configs
    /\ subs \in [Users -> {None, StoredBasic, StoredStandard}]
    /\ Boot

SweepNext ==
    \/ \E t \in Tasks : PesStart(t)
    \/ \E t \in Tasks : PesLoop(t)
    \/ \E t \in Tasks : PesAfterRevoke(t)
    \/ \E t \in Tasks : PesNotify(t)
    \/ \E t \in Tasks, u \in Users : GssStart(t, u)
    \/ \E t \in Tasks : GssResume(t)
    \/ \E t \in Tasks : HeAfterRevoke(t)
    \/ \E t \in Tasks : HeNotifyAndRecurse(t)
    \/ \E t \in Tasks : Finish(t)
    \/ TickRace

SweepSpec == SweepInit /\ [][SweepNext]_vars

(* Payment runs: creation, reports from every entry point, admin review *)
ReportStatuses == {"success", "failed", "refunded", "pending"}
GatewayStatuses == {"captured", "refunded", "created"}

PayStart(t) ==
    \/ \E p \in PaymentIds, st \in ReportStatuses : PpStart(t, p, st)
    \/ \E p \in PaymentIds, st \in GatewayStatuses : RazorpayStart(t, p, st)
    \/ \E p \in PaymentIds : RejectManualStart(t, p)
    \/ \E p \in PaymentIds : StripeStart(t, p)
    \/ \E p \in PaymentIds, h \in {"handle_paypal_webhook", "handle_upi_confirmation"} :
          LookupStart(t, p, h)
    \/ \E p \in PaymentIds, h \in {"approve_payment", "reject_payment"} :
          AdminStart(t, p, h)

PayRun(t) ==
    \/ PpAfterUpdate(t)
    \/ PpAfterGet(t)
    \/ PpGrant(t)
    \/ PpReturn(t)
    \/ RejectManualFinish(t)
    \/ LookupResume(t)
    \/ WebhookGrant(t)
    \/ WebhookReturn(t)
    \/ AdminResume(t)
    \/ HandlersRun(t)
    \/ UusWrite(t)
    \/ UusFinish(t)
    \/ Finish(t)

PayNext ==
    \/ \E u \in GrantUsers, plan \in Plans : CreatePayment(u, plan)
    \/ \E t \in Tasks : PayStart(t)
    \/ \E t \in Tasks : PayRun(t)
    \/ TickRace

PaySpec == DefaultInit /\ [][PayNext]_vars

(* Codec runs: tokens issued by token_manager, strings presented by clients. *)
(* validate_token has no await, so the calls are taken one after another.   *)
CodecNext ==
    \/ \E u \in GrantUsers, d \in {0, BASIC_PLAN_DAYS} : TmGenerateToken(u, d)
    \/ \E token \in Presentable : TmValidateString(SeqTask, token)
    \/ \E token \in Presentable : ValidateVerificationToken(SeqTask, token)
    \/ Finish(SeqTask)
    \/ TickHour

CodecSpec == DefaultInit /\ [][CodecNext]_vars

(* Redemption runs: tokens issued with their store copy, redeemed by    *)
(* validate_token, start_command and verify_command.  The store copy    *)
(* holds no plan_days, so no command enters update_user_subscription    *)
(* here and the steps of that call are left out of these runs.          *)
RedeemNext ==
    \/ \E u \in Users, d \in {0, BASIC_PLAN_DAYS} : GenerateToken(u, d)
    \/ \E t \in Tasks, k \in TokenIds : ValidateLookup(t, k)
    \/ \E t \in Tasks : ValidateCheck(t)
    \/ \E t \in Tasks : ValidateReturn(t)
    \/ \E t \in Tasks, u \in GrantUsers, k \in TokenIds : StartCommandLookup(t, u, k)
    \/ \E t \in Tasks : StartCommandCheck(t)
    \/ \E t \in Tasks : StartCommandValidated(t)
    \/ \E t \in Tasks, u \in GrantUsers, k \in TokenIds : VerifyCommandLookup(t, u, k)
    \/ \E t \in Tasks : VerifyCommandCheck(t)
    \/ \E t \in Tasks : VerifyCommandValidated(t)
    \/ \E t \in Tasks : Finish(t)
    \/ TickHour

RedeemSpec == DefaultInit /\ [][RedeemNext]_vars

(* Session-token runs: tokens issued for 0 or 7 days, verified over days *)
AccessNext ==
    \/ \E u \in GrantUsers, d \in {0, BASIC_PLAN_DAYS} : GenerateAccessToken(u, d)
    \/ \E t \in Tasks, token \in AccessStrings : VerifyAccessToken(t, token)
    \/ \E t \in Tasks : Finish(t)
    \/ TickDays

AccessSpec == DefaultInit /\ [][AccessNext]_vars

(* Background runs: the maintenance loop and the notification scheduler   *)
(* (notifications enabled) over a basic subscription that ends at the end *)
(* of day 7.  The process may have been started before: the store may     *)
(* hold the reminder an earlier run sent at hour 0.                       *)
MaxLoopClockHours == 192
LoopClockSteps == {DAY}

TickDay ==
    /\ \E step \in LoopClockSteps :
          /\ now + step <= MaxLoopClockHours
          /\ now' = now + step
    /\ UNCHANGED <<config, issued, tokens, subs, payments, subscription_cache,
                   subscription_data, task, notified, hist>>

RemindedAtStart ==
    [NoNotifications EXCEPT !.reminder[1][7] = 1, !.last_notified[1] = 0]

LoopInit ==
    /\ config \in Configs
    /\ subs = [u \in Users |-> IF u \in GrantUsers THEN StoredBasic ELSE None]
    /\ BootQuiet
    /\ notified \in {NoNotifications, RemindedAtStart}

LoopNext ==
    \/ PesStart(MaintTask)
    \/ PesLoop(MaintTask)
    \/ PesAfterRevoke(MaintTask)
    \/ PesNotify(MaintTask)
    \/ MtAfterSweep(MaintTask)
    \/ MtWake(MaintTask)
    \/ NmCheckStart(SchedTask)
    \/ NmLoop(SchedTask)
    \/ NmRecord(SchedTask)
    \/ NmWake(SchedTask)
    \/ TickDay

LoopSpec == LoopInit /\ [][LoopNext]_vars

(* The maintenance loop alone.  The event loop runs every coroutine that   *)
(* is ready and every sleep returns, so each step of the loop is taken     *)
(* once it stays possible; nothing is assumed about the clock.             *)
MaintStep ==
    \/ PesStart(MaintTask)
    \/ PesLoop(MaintTask)
    \/ PesAfterRevoke(MaintTask)
    \/ PesNotify(MaintTask)
    \/ MtAfterSweep(MaintTask)
    \/ MtWake(MaintTask)

MaintNext ==
    \/ MaintStep
    \/ TickDay

MaintSpec == LoopInit /\ [][MaintNext]_vars /\ WF_vars(MaintStep)

(* The maintenance loop with the clock paced by it: a day passes only     *)
(* while the loop sleeps after an iteration made on that day, and since   *)
(* time does pass, a day that can pass again and again does pass.  The    *)
(* record of user 1 ends after 7 days, so its remaining time goes through *)
(* 7, 3 and 1 days.                                                       *)
PacedInit ==
    /\ config \in Configs
    /\ subs = [u \in Users |-> IF u \in GrantUsers THEN StoredBasic ELSE None]
    /\ Boot

PacedTick ==
    /\ task[MaintTask].pc = "mt_sleep"
    /\ task[MaintTask].at = now
    /\ TickDay

PacedNext ==
    \/ MaintStep
    \/ PacedTick

PacedSpec ==
    PacedInit /\ [][PacedNext]_vars /\ WF_vars(MaintStep) /\ SF_vars(PacedTick)

(* Failure runs, one call at a time: grants made directly and through the *)
(* payment webhooks, with the store write or a message failing            *)
WebhookHandlers == {"handle_stripe_webhook", "handle_paypal_webhook", "handle_upi_confirmation"}

FaultNext ==
    \/ \E u \in GrantUsers, plan \in Plans : CreatePayment(u, plan)
    \/ \E u \in GrantUsers, d \in GrantDays : AllIdle /\ UusStart(SeqTask, u, d)
    \/ \E p \in PaymentIds : AllIdle /\ StripeStart(SeqTask, p)
    \/ \E p \in PaymentIds, h \in WebhookHandlers \ {"handle_stripe_webhook"} :
          AllIdle /\ LookupStart(SeqTask, p, h)
    \/ LookupResume(SeqTask)
    \/ WebhookGrant(SeqTask)
    \/ UusWrite(SeqTask)
    \/ UusWriteFails(SeqTask)
    \/ UusFinish(SeqTask)
    \/ UusFinishUndelivered(SeqTask)
    \/ WebhookReturn(SeqTask)
    \/ WebhookConfirmFails(SeqTask)
    \/ Finish(SeqTask)
    \/ TickDays

FaultSpec == DefaultInit /\ [][FaultNext]_vars

(* Lifecycle runs, one call at a time: grants through both modules, *)
(* revocation, status reads and the sweep, over days                *)
LifeNext ==
    \/ AllIdle /\ ManagerStart(SeqTask)
    \/ \E u \in GrantUsers, d \in GrantDays : AllIdle /\ HusStart(SeqTask, u, d)
    \/ AllIdle /\ PesStart(SeqTask)
    \/ ManagerRun(SeqTask)
    \/ HandlersRun(SeqTask)
    \/ PesLoop(SeqTask)
    \/ PesAfterRevoke(SeqTask)
    \/ PesNotify(SeqTask)
    \/ TickDays

LifeSpec == Init /\ [][LifeNext]_vars

(* Grant runs with both readings of the clock, one call at a time: between *)
(* the two datetime.now() calls of update_user_subscription the clock     *)
(* either shows the same instant or has moved on                          *)
DriftNext ==
    \/ \E u \in GrantUsers, d \in PlanDays : AllIdle /\ UusStart(SeqTask, u, d)
    \/ UusWrite(SeqTask)
    \/ UusWriteLate(SeqTask)
    \/ UusFinish(SeqTask)
    \/ Finish(SeqTask)
    \/ TickDays

DriftSpec == DefaultInit /\ [][DriftNext]_vars

(* Gate runs, one call at a time: grants and revocations through both     *)
(* modules, commands of the target bot passing intercept_command, days    *)
GateNext ==
    \/ \E u \in GrantUsers, d \in GrantDays : AllIdle /\ UusStart(SeqTask, u, d)
    \/ \E u \in GrantUsers, d \in GrantDays : AllIdle /\ HusStart(SeqTask, u, d)
    \/ \E u \in GrantUsers : AllIdle /\ RevokeStart(SeqTask, u)
    \/ \E u \in GrantUsers : AllIdle /\ HrvStart(SeqTask, u)
    \/ \E u \in GrantUsers, command \in Commands : AllIdle /\ IcStart(SeqTask, u, command)
    \/ UusWrite(SeqTask)
    \/ UusFinish(SeqTask)
    \/ RevokeFinish(SeqTask)
    \/ HrvFinish(SeqTask)
    \/ HandlersRun(SeqTask)
    \/ IcResume(SeqTask)
    \/ IcLookupFails(SeqTask)
    \/ IcChecked(SeqTask)
    \/ IcLink(SeqTask)
    \/ Finish(SeqTask)
    \/ TickDays

GateSpec == DefaultInit /\ [][GateNext]_vars

----------------------------------------------------------------------------
(* Claims on the token codec, checked under TokenSpec *)

ValidateDone(t) == Done(t) /\ task[t].op = "validate_token"

\* C1: for a token issued by token_generator.generate_token, the first
\* validate_token call, made before the token expires, returns success, and
\* every validate_token call that starts after a call has returned success
\* returns (False, None).
C1_RedeemedOnceThenRejected ==
    \A t \in Tasks :
        ValidateDone(t) =>
            /\ task[t].late => task[t].res = "fail" /\ task[t].data = None
            /\ ( /\ task[t].first
                 /\ task[t].at <= task[t].snap.expires_at )
               => task[t].res = "ok"

\* a second call on a token that is redeemed and not expired is rejected
C1_Witness ==
    \E t \in Tasks :
        /\ ValidateDone(t) /\ task[t].late /\ task[t].res = "fail"
        /\ task[t].at <= task[t].snap.expires_at
        /\ hist.redeemed[task[t].tok] = 1

\* C5: once the time a validate_token call reads is past the token's
\* expires_at, the call fails, used or not, in token_generator.validate_token
\* and in token_manager.validate_token.
C5_ExpiredAlwaysRejected ==
    \A t \in Tasks :
        ( /\ Done(t)
          /\ task[t].op \in {"validate_token", "tm_validate_token"}
          /\ issued[task[t].tok] # None
          /\ task[t].at > issued[task[t].tok].expires_at )
        => task[t].res = "fail" /\ task[t].data = None

\* both validators have rejected an expired token that was never used
C5_Witness ==
    \E t1, t2 \in Tasks :
        /\ ValidateDone(t1) /\ task[t1].snap # None /\ ~task[t1].snap.is_used
        /\ task[t1].at > task[t1].snap.expires_at /\ task[t1].res = "fail"
        /\ Done(t2) /\ task[t2].op = "tm_validate_token"
        /\ task[t2].at > issued[task[t2].tok].expires_at /\ task[t2].res = "fail"

\* C7: of two validate_token calls on the same unused, unexpired token that
\* interleave at the lookup and the mark-used write, at most one returns
\* success.
C7_AtMostOneSuccess ==
    \A k \in TokenIds : hist.redeemed[k] <= 1

----------------------------------------------------------------------------
(* Claims on the subscription lifecycle *)

GrantDone(t) ==
    /\ Done(t)
    /\ task[t].op \in {"update_user_subscription", "update_subscription"}

\* the end time the extension law asks of a grant of d days made at time cur
\* on the record sub
LawfulEnd(sub, cur, d) ==
    IF sub # None /\ sub.status = "active" /\ cur < sub.end_date
    THEN sub.end_date + d * DAY
    ELSE cur + d * DAY

\* C3: a grant of d days to a user whose subscription is active with end time
\* T leaves the store with end time T + d; a grant to a user with no
\* subscription, or an expired or revoked one, leaves it with now + d.
\* Checked with one call at a time (SubSeqSpec), on calls during which the
\* clock does not move.
C3_ExtensionLaw ==
    \A t \in Tasks :
        GrantDone(t) /\ task[t].at = now =>
            subs[task[t].user].end_date
                = LawfulEnd(task[t].before, task[t].at, task[t].days)

\* the same law on the record update_user_subscription returns and caches
C3_ReturnedExpiry ==
    \A t \in Tasks :
        Done(t) /\ task[t].op = "update_user_subscription" /\ task[t].at = now =>
            task[t].data.expiry_date
                = LawfulEnd(task[t].before, task[t].at, task[t].days)

\* C4: after revoke_subscription(user_id) has returned success, every
\* get_subscription_status(user_id) that starts later reports the subscription
\* as not active, until a new grant is made for the user.
C4_InactiveAfterRevoke ==
    \A t \in Tasks :
        ( /\ Done(t) /\ task[t].op = "get_subscription_status"
          /\ task[t].late /\ hist.revoked[task[t].user]
          /\ task[t].res = "ok" )
        => ~task[t].data.is_active

\* C8: two update_user_subscription calls for one user that interleave at
\* their store calls (both read the same active record with end time T) leave
\* the store with end time T + d1 + d2.
C8_BothGrantsCounted ==
    \A t1, t2 \in Tasks :
        ( /\ t1 # t2
          /\ Done(t1) /\ task[t1].op = "update_user_subscription"
          /\ Done(t2) /\ task[t2].op = "update_user_subscription"
          /\ task[t1].user = task[t2].user
          /\ task[t1].before = task[t2].before
          /\ task[t1].before # None
          /\ SubscriptionIsActive(task[t1].before, task[t1].at)
          /\ SubscriptionIsActive(task[t2].before, task[t2].at) )
        => subs[task[t1].user].end_date
              = task[t1].before.end_date + (task[t1].days + task[t2].days) * DAY

----------------------------------------------------------------------------
(* Claims on payments, checked under PaySpec *)

SuccessReport(t) ==
    /\ Done(t)
    /\ \/ task[t].op \in {"process_payment", "handle_razorpay_webhook"}
          /\ task[t].arg = "success"
       \/ task[t].op \in {"handle_stripe_webhook", "handle_paypal_webhook",
                          "handle_upi_confirmation"}

\* C2: a report of a payment as successful (process_payment with success, or a
\* delivery of a gateway webhook) that starts after an earlier report of the
\* same payment has returned True leaves the subscription's end time as the
\* first report left it.
C2_ReportedTwiceExtendedOnce ==
    \A t \in Tasks :
        SuccessReport(t) /\ task[t].late =>
            EndOf(subs, task[t].user) = hist.first_end[task[t].pay]

TerminalStatuses ==
    {"success", "failed", "cancelled", "refunded", "approved", "rejected"}

C9_ExactlyOneApproval ==
    \A t1, t2 \in Tasks :
        ( /\ t1 # t2
          /\ Done(t1) /\ task[t1].op = "approve_payment"
          /\ Done(t2) /\ task[t2].op = "approve_payment"
          /\ task[t1].pay = task[t2].pay
          /\ task[t1].snap # None /\ task[t1].snap.status = "pending"
          /\ task[t2].snap # None /\ task[t2].snap.status = "pending" )
        => /\ payments[task[t1].pay].status = "approved"
           /\ EndOf(subs, task[t1].snap.user_id)
                 = now + task[t1].snap.plan_days * DAY
           /\ \E t \in {t1, t2} : task[t].res = "ok"

\* C10: a gateway success callback that starts after an earlier callback for
\* the same payment has returned True sends no further activation
\* notification and grants nothing further.
C10_SecondCallbackSilent ==
    \A t \in Tasks :
        ( /\ Done(t)
          /\ task[t].op \in {"handle_stripe_webhook", "handle_paypal_webhook",
                             "handle_upi_confirmation"}
          /\ task[t].late
          /\ hist.deliveries[task[t].pay] >= 2 )
        => /\ notified.activated[task[t].user] = 1
           /\ EndOf(subs, task[t].user) = hist.first_end[task[t].pay]

\* a call that must grant nothing: process_payment (directly or from the
\* Razorpay webhook) with a status other than success, reject_manual_payment
NoGrantCall(f) ==
    \/ f.op \in {"process_payment", "handle_razorpay_webhook"} /\ f.arg # "success"
    \/ f.op = "reject_manual_payment"

----------------------------------------------------------------------------
(* Claims on expiry, the sweep and the cache *)

SweepDone(t) == Done(t) /\ task[t].op = "process_expired_subscriptions"

\* the users a frame lists as processed
ProcessedUsers(f) == {f.processed[i] : i \in 1..Len(f.processed)}

\* C12: with auto-revoke on, when a process_expired_subscriptions run returns,
\* none of the N records it found active and past their end time is still
\* active, and the users it reports as processed are exactly those N.
C12_SweepProcessesAll ==
    \A t \in Tasks :
        SweepDone(t) /\ config.auto_revoke =>
            /\ \A u \in task[t].found : subs[u].status # "active"
            /\ ProcessedUsers(task[t]) = task[t].found

\* a frame inside the sweep, or inside get_subscription_status and the
\* handle_expired_subscription it calls
ExpiryCall(f) == f.op \in {"process_expired_subscriptions", "get_subscription_status"}

\* C13: with auto-revoke off, no step of process_expired_subscriptions or of
\* handle_expired_subscription changes a record of the subscription store.
C13_NoRevokeWhenOff ==
    [][\A t \in Tasks :
          ( /\ ~config.auto_revoke
            /\ task'[t] # task[t]
            /\ (ExpiryCall(task[t]) \/ ExpiryCall(task'[t])) )
          => subs' = subs]_vars

\* with auto-revoke off a sweep has returned after it went through a record
\* that is past its end time, and the record is still active in the store
C13_Witness ==
    \E t \in Tasks :
        /\ ~config.auto_revoke
        /\ SweepDone(t) /\ task[t].found # {}
        /\ ProcessedUsers(task[t]) = task[t].found
        /\ \A u \in task[t].found :
              subs[u].status = "active" /\ subs[u].end_date < task[t].at

\* get_subscription_status lines 51-58: the free default
FreeDefault == [plan |-> "free", is_active |-> TRUE, expiry_date |-> NoDate]

StatusDone(t) == Done(t) /\ task[t].op = "get_subscription_status"

\* C14: with auto-revoke and free-tier fallback both on, a
\* get_subscription_status for a user that starts after the sweep's
\* handle_expired_subscription went through that user returns plan free,
\* is_active true, expiry None.
C14_FreeTierAfterExpiry ==
    \A t \in Tasks :
        ( /\ StatusDone(t) /\ task[t].swept
          /\ config.auto_revoke /\ config.free_tier_fallback )
        => task[t].res = "ok" /\ task[t].data = FreeDefault

\* C15: for a user with no subscription record in the store,
\* get_subscription_status, of subscription_manager and of
\* handlers/subscription, returns the free default: plan free, is_active true,
\* expiry None.
C15_FreeDefaultWithoutRecord ==
    \A t \in Tasks :
        ( /\ Done(t)
          /\ task[t].op \in {"get_subscription_status",
                             "handlers.get_subscription_status"}
          /\ subs[task[t].user] = None )
        => task[t].res = "ok" /\ task[t].data = FreeDefault

\* the same for subscription_manager.get_subscription_status alone
C15_ManagerFreeDefault ==
    \A t \in Tasks :
        StatusDone(t) /\ subs[task[t].user] = None =>
            task[t].res = "ok" /\ task[t].data = FreeDefault

RevocationCalls ==
    {"revoke_subscription", "handlers.revoke_subscription",
     "admin_action_handler.revoke_subscription", "handle_revoke_subscription"}

\* a cache entry that a status read would serve as active
ServedActive(entry, cur) ==
    entry # None /\ entry.is_active /\ entry.expiry_date > cur

\* C16: when a revocation call, on any of the four paths, has returned and the
\* store holds the user as not active, neither cache holds an entry that a
\* status read would serve as active for that user.
C16_NoActiveCacheAfterRevoke ==
    \A t \in Tasks :
        ( /\ Done(t) /\ task[t].op \in RevocationCalls /\ task[t].res = "ok"
          /\ subs[task[t].user] # None
          /\ ~SubscriptionIsActive(subs[task[t].user], now) )
        => /\ ~ServedActive(subscription_cache[task[t].user], now)
           /\ ~ServedActive(subscription_data[task[t].user], now)

StatusCalls == {"get_subscription_status", "handlers.get_subscription_status"}

\* the cache a status call of the frame's module reads
CacheOf(f) ==
    IF f.op = "get_subscription_status" THEN subscription_cache ELSE subscription_data

\* C17: a get_subscription_status call that returns without a store read
\* returns a cached entry whose expiry is after now; a call that finds an
\* active cached entry with expiry_date <= now goes to the store.
C17_StaleCacheNotServed ==
    [][\A t \in Tasks :
          (task[t].pc = "idle" /\ task'[t].op \in StatusCalls) =>
              LET f == task'[t]
                  c == CacheOf(f)[f.user]
              IN  /\ (f.pc = "done" /\ f.data # None) =>
                         f.data = c /\ f.data.expiry_date > now
                  /\ (c # None /\ c.is_active /\ c.expiry_date <= now) =>
                         f.pc \in {"gss_got", "hgs_got"}]_vars

\* at the instant a record ends, a status read of handlers/subscription is at
\* the store while subscription_data still holds the active entry with that
\* expiry, and subscription_manager has dropped its own
C17_Witness ==
    \E t \in Tasks :
        /\ task[t].pc = "hgs_got"
        /\ task[t].at = now
        /\ subscription_data[task[t].user] # None
        /\ subscription_data[task[t].user].is_active
        /\ subscription_data[task[t].user].expiry_date = now
        /\ subscription_cache[task[t].user] = None
        /\ subs[task[t].user].end_date = now

\* a cache entry and a store record say the same about is_active and expiry
AgreesWithStore(entry, sub, cur) ==
    /\ sub # None
    /\ entry.is_active = SubscriptionIsActive(sub, cur)
    /\ entry.expiry_date = sub.end_date

\* C18: when update_user_subscription or revoke_subscription has returned,
\* the subscription_cache entry of the user is absent or agrees with the
\* store's record on is_active and expiry.  For update_user_subscription the
\* calls taken are those during which the clock does not move.
C18_CacheAgreesOnReturn ==
    [][\A t \in Tasks :
          ( /\ task[t].pc # "done" /\ task'[t].pc = "done"
            /\ task'[t].op \in {"update_user_subscription", "revoke_subscription"}
            /\ task'[t].op = "update_user_subscription" => task'[t].at = now' )
          => \/ subscription_cache'[task'[t].user] = None
             \/ AgreesWithStore(subscription_cache'[task'[t].user],
                                subs'[task'[t].user], now')]_vars

----------------------------------------------------------------------------
(* Claims on the plan mapping and the expiry boundary *)

\* the tier the mapping of the specification gives a day count
TierOfDays(d) ==
    IF d = 7 THEN "basic" ELSE IF d = 30 THEN "standard"
    ELSE IF d = 90 THEN "premium" ELSE "custom"

\* C19: the plan tier update_user_subscription stores and returns for a grant
\* is basic for 7 days, standard for 30, premium for 90 and custom for every
\* other day count.
C19_TierIsFunctionOfDays ==
    \A t \in Tasks :
        Done(t) /\ task[t].op = "update_user_subscription" =>
            /\ subs[task[t].user].plan_type = TierOfDays(task[t].days)
            /\ task[t].data.plan = TierOfDays(task[t].days)

\* C20: a validate_token call, of token_generator or of token_manager, that
\* reads the clock at or after the token's expires_at is rejected; in
\* particular at the instant now == expires_at.
C20_BoundaryExclusive ==
    \A t \in Tasks :
        ( /\ Done(t)
          /\ task[t].op \in {"validate_token", "tm_validate_token"}
          /\ issued[task[t].tok] # None
          /\ task[t].at >= issued[task[t].tok].expires_at )
        => task[t].res = "fail"

----------------------------------------------------------------------------
(* Claims on the token strings of token_manager *)

TmDone(t) == Done(t) /\ task[t].op \in TmOps

\* the causes of rejection, as they stood when the call was made
Malformed(token) == Len(token) # 2 \/ ~Decodable(token[1])
Mismatched(token) == Len(token) = 2 /\ token[2] # generate_signature(token[1])
ExpiredAtCall(f) ==
    /\ ~Malformed(f.token)
    /\ Decode(f.token[1]).expires_at < f.at
UsedBefore(f) == f.late

\* C21: a validate_token call on a token that is malformed, carries a
\* mismatched signature, is expired or was already used returns (False, None):
\* not ok, and no payload.
C21_FailuresCollapse ==
    \A t \in Tasks :
        (/\ TmDone(t)
         /\ \/ Malformed(task[t].token)
            \/ Mismatched(task[t].token)
            \/ ExpiredAtCall(task[t])
            \/ UsedBefore(task[t]))
        => (task[t].res = "fail" /\ task[t].data = None)

\* the strings generate_token has returned so far
IssuedStrings == {TokenString(k) : k \in {x \in TokenIds : issued[x] # None}}

\* the payload or the signature of an issued token was changed after issue
Tampered(token) ==
    /\ Len(token) = 2
    /\ token \notin IssuedStrings
    /\ \E k \in TokenIds :
          /\ issued[k] # None
          /\ token[1].uuid = k \/ token[2] = TokenString(k)[2]

\* C22: token_manager.validate_token returns ok only for a string of exactly
\* two parts whose second part is the MAC of the first under the server
\* secret, so only for a string that generate_token returned; a string whose
\* payload or signature was changed after issue is rejected.
C22_OnlySignedAccepted ==
    \A t \in Tasks :
        (TmDone(t) /\ task[t].res = "ok")
        => /\ Len(task[t].token) = 2
           /\ task[t].token[2] = Mac(ServerKey, task[t].token[1])
           /\ task[t].token \in IssuedStrings
           /\ ~Tampered(task[t].token)

\* a changed payload under the signature of the issued token was presented
\* before its expiry and rejected
C22_Witness ==
    \E t \in Tasks :
        /\ TmDone(t)
        /\ Tampered(task[t].token)
        /\ task[t].token[1].b64
        /\ task[t].token[1].json.plan_days = STANDARD_PLAN_DAYS
        /\ task[t].token[2].key = ServerKey
        /\ task[t].at <= task[t].token[1].json.expires_at
        /\ task[t].res = "fail"
        /\ task[t].data = None

----------------------------------------------------------------------------
(* Claims on redemption *)

StartCommandDone(t) == Done(t) /\ task[t].op = "start_command"

\* C23: the data a successful validate_token returns carries the user_id and
\* the plan_days that generate_token was given for that token, and
\* start_command, redeeming a token issued for d > 0 days, grants d days.
C23_RedeemGrantsIssuedDays ==
    /\ \A t \in Tasks :
          (ValidateDone(t) /\ task[t].res = "ok")
          => /\ task[t].data.user_id = issued[task[t].tok].user_id
             /\ PlanDaysOf(task[t].data) = issued[task[t].tok].plan_days
    /\ \A t \in Tasks :
          (/\ StartCommandDone(t)
           /\ task[t].ok
           /\ issued[task[t].tok].plan_days > 0)
          => (task[t].arg = "activated" /\ task[t].days = issued[task[t].tok].plan_days)

VerificationDone(t) == Done(t) /\ task[t].op = "validate_verification_token"

\* C24: integration.validate_verification_token accepts a given token at most
\* once: a token it has accepted before is rejected when presented again.
C24_VerifiedAtMostOnce ==
    \A t \in Tasks :
        (VerificationDone(t) /\ task[t].replay) => task[t].res = "fail"

----------------------------------------------------------------------------
(* Claims on the signed session token *)

AccessDone(t) == Done(t) /\ task[t].op = "verify_access_token"

\* the payload inside a session token string
AccessPayloadOf(token) == Decode(Decrypt(token)[1])

\* a string generate_access_token returned, encrypted or plain
Genuine(token) ==
    \E k \in TokenIds :
        /\ issued[k] # None
        /\ Decrypt(token) = JwtEncode(k, issued[k], ServerKey)

\* C25: verify_access_token returns (False, None) for every session token
\* once now > exp; before exp it accepts an issued token however often the
\* token was accepted before (the token is not single-use).
C25_RejectedAfterExpNotSingleUse ==
    \A t \in Tasks :
        AccessDone(t)
        => /\ task[t].at > AccessPayloadOf(task[t].token).exp
              => (task[t].res = "fail" /\ task[t].data = None)
           /\ (Genuine(task[t].token) /\ task[t].at < AccessPayloadOf(task[t].token).exp)
              => (task[t].res = "ok" /\ task[t].data = AccessPayloadOf(task[t].token))

\* one call accepted a token that had been accepted before, and a call on
\* the same token made after exp was rejected
C25_Witness ==
    \E t \in Tasks, r \in Tasks :
        /\ AccessDone(t) /\ AccessDone(r)
        /\ task[t].token = task[r].token
        /\ Genuine(task[t].token)
        /\ task[t].replay /\ task[t].res = "ok"
        /\ task[r].replay /\ task[r].res = "fail" /\ task[r].data = None
        /\ task[r].at > AccessPayloadOf(task[r].token).exp

----------------------------------------------------------------------------
(* Claims on the background loops *)

ReminderThresholds == {7, 3, 1}

----------------------------------------------------------------------------
(* Claims on upstream failures *)

\* the store write of update_user_subscription has been made in this call
StoreWritten(f) == f.exp # NoDate /\ f.fault # "store"

\* C27: when a notification of the activation fails after the store write of
\* update_user_subscription, the triggering operation still succeeds:
\* update_user_subscription returns the updated record, and the webhook handler
\* that called it returns True.
C27_NotificationFailureNotFatal ==
    \A t \in Tasks :
        (Done(t) /\ StoreWritten(task[t]) /\ task[t].fault = "notify")
        => /\ task[t].res = "ok"
           /\ task[t].data # None
           /\ task[t].data.is_active

\* C28: when the store write fails during update_user_subscription, the call
\* does not return an active record for the user, does not leave one in the
\* cache, and sends no activation notification.
C28_StoreFailureSurfaces ==
    [][\A t \in Tasks :
          (task[t].pc = "uus_written" /\ task[t].fault = "store")
          => /\ notified' = notified
             /\ ~(task'[t].res = "ok" /\ task'[t].data # None /\ task'[t].data.is_active)
             /\ subscription_cache' = subscription_cache]_vars

----------------------------------------------------------------------------
(* Claims on the maintenance loop *)

Sweeping == task[MaintTask].op = "process_expired_subscriptions"

----------------------------------------------------------------------------
(* Claims on the lifecycle of a subscription *)

\* the stored record is an active subscription now (db_models.Subscription.is_active)
ActiveNow(store, u, cur) == store[u] # None /\ SubscriptionIsActive(store[u], cur)

\* this step is the store write of a grant for user u
GrantWrite(u) ==
    \E t \in Tasks :
        /\ task[t].user = u
        /\ \/ task[t].pc = "uus_got" /\ task'[t].pc = "uus_written"
           \/ task[t].pc = "hus_got" /\ task'[t].pc = "hus_written"

\* C30: per user the subscription goes NONE -> ACTIVE -> (EXPIRED | CANCELLED);
\* a user without an active subscription (none, cancelled or expired) gets an
\* active one only by the store write of an explicit grant: no sweep, status
\* read, revocation or passing of time makes a subscription active again.
C30_ActiveOnlyByGrant ==
    [][\A u \in Users :
          (~ActiveNow(subs, u, now) /\ ActiveNow(subs', u, now')) => GrantWrite(u)]_vars

\* a subscription was revoked, a status read made after the revocation has
\* returned, and the stored record is still cancelled
C30_Witness ==
    \E t \in Tasks :
        /\ StatusDone(t)
        /\ task[t].late
        /\ subs[task[t].user] # None
        /\ subs[task[t].user].status = "cancelled"
        /\ ~ActiveNow(subs, task[t].user, now)

----------------------------------------------------------------------------
(* Claims on termination of the status read *)

\* the store read of the call found a record whose end time is in the past
ReadExpired(f) == f.snap # None /\ f.snap.end_date # NoDate /\ f.snap.end_date < now

\* C31: get_subscription_status for a user whose stored subscription has its
\* end time in the past terminates with a record, after finitely many store
\* reads and handle_expired_subscription calls, under every setting of
\* AUTO_REVOKE_EXPIRED and FREE_TIER_FALLBACK.
C31_StatusReadReturnsRecord ==
    \A t \in Tasks :
        (StatusDone(t) /\ ReadExpired(task[t]))
            => (task[t].res = "ok" /\ task[t].data # None)

----------------------------------------------------------------------------
(* Claims on who a redemption grants to *)

RedeemCommands == {"start_command", "verify_command"}

\* the frame of a command that validate_token has accepted the token for
Redeemed(f) == f.op \in RedeemCommands /\ f.ok

\* the frame has entered update_user_subscription for f.user with f.days days
EnteredGrant(f) == f.op \in RedeemCommands /\ f.days > 0

----------------------------------------------------------------------------
(* Claims on the days a payment grants *)

\* a process_payment call (direct or from the Razorpay webhook) returned True
ProcessPaymentDone(t) ==
    /\ Done(t)
    /\ task[t].op \in {"process_payment", "handle_razorpay_webhook"}
    /\ task[t].res = "ok"

\* C33: the number of days by which process_payment extends the subscription
\* on success equals the plan_days recorded on the payment when it was created.
C33_GrantsRecordedDays ==
    \A t \in Tasks :
        ProcessPaymentDone(t) => task[t].days = payments[task[t].pay].plan_days

----------------------------------------------------------------------------
(* Claims on the token and its grant *)

\* C34: in start_command a token with plan_days > 0 is marked used only
\* together with its grant: when the command has ended and the token it
\* presented is marked used by it, the user holds the granted subscription.
C34_UsedOnlyWithGrant ==
    \A t \in Tasks :
        ( /\ StartCommandDone(t)
          /\ task[t].ok
          /\ issued[task[t].tok].plan_days > 0
          /\ tokens[task[t].tok].is_used )
        => ActiveNow(subs, task[t].user, now)

----------------------------------------------------------------------------
(* Claims on the expired notification *)

\* C35: for each subscription that expires, the subscription-expired
\* notification is sent exactly once in total, however many sweeps and
\* get_subscription_status reads follow the expiry, with auto-revoke on or
\* off: never more than one per user, and one for every record a finished
\* sweep found expired.
C35_ExpiredNotifiedExactlyOnce ==
    /\ \A u \in Users : notified.expired[u] <= 1
    /\ \A t \in Tasks : \A u \in Users :
          (SweepDone(t) /\ u \in task[t].found) => notified.expired[u] = 1

----------------------------------------------------------------------------
(* Claims on the reminders of the maintenance loop *)

\* maintenance_task has sent user u the reminder of threshold d
Reminded(u, d) == notified.reminder[u][d] > 0

\* C36: for an active subscription whose remaining time passes through 7, 3
\* and 1 days while maintenance_task keeps running, a reminder is eventually
\* sent at each of the three thresholds, the 7-day one included.
C36_ReminderAtEachThreshold ==
    \A u \in GrantUsers : \A d \in {7, 3, 1} : <>Reminded(u, d)

----------------------------------------------------------------------------
(* Claims on the sweep's return value in the maintenance loop *)

\* the sweep of this iteration has returned to maintenance_task
SweepReturned == Done(MaintTask) /\ task[MaintTask].op = "process_expired_subscriptions"

\* C37: what process_expired_subscriptions returns is the count that
\* maintenance_task compares with 0: after a sweep that raised nothing the
\* loop goes on to the reminder step, and the wait that follows is the
\* hourly one, not the error backoff.
C37_CleanSweepTakesHourlyWait ==
    /\ [][SweepReturned => task'[MaintTask].pc = "mt_remind"]_vars
    /\ [](task[MaintTask].pc = "mt_sleep"
            => task[MaintTask].sleep = SWEEP_INTERVAL_SECONDS)

----------------------------------------------------------------------------
(* Claims on the days handed to the store *)

\* update_user_subscription has just written the record of a user who had none
FreshGrantWritten(t) ==
    /\ task[t].op = "update_user_subscription"
    /\ task[t].pc = "uus_written"
    /\ task[t].before = None

\* C38: for a fresh grant of d days the plan_days that update_subscription
\* hands to the store equals d: the whole-day difference expiry_date -
\* start_date is not reduced below d by the clock moving between the two
\* readings.
C38_FreshGrantHandsOverAllDays ==
    \A t \in Tasks :
        FreshGrantWritten(t) => subs[task[t].user].plan_days = task[t].days

----------------------------------------------------------------------------
(* Claims on the command gate *)

\* an intercept_command call has returned within the hour it was made in
InterceptDone(t) ==
    Done(t) /\ task[t].op = "intercept_command" /\ task[t].at = now

\* C39: intercept_command never lets a command that requires authorization
\* proceed for a user whose subscription is not active, also when the
\* subscription lookup or the link generation raised an error.
C39_NoProceedWithoutActive ==
    \A t \in Tasks :
        ( /\ InterceptDone(t)
          /\ requires_authorization(task[t].arg)
          /\ task[t].ok )
        => ActiveNow(subs, task[t].user, now)

====
